---- MODULE Spec2Model ----
(***************************************************************************)
(* Model of the lume lexer (src/lexer/mod.rs, src/lexer/token.rs,          *)
(* src/span.rs, src/error.rs).                                             *)
(*                                                                         *)
(* A source text is a sequence of characters; a character is a one-char    *)
(* string.  The Peekable<CharIndices> iterator `chars` is the index of the *)
(* next character not yet consumed; the byte offset CharIndices reports    *)
(* for it is ByteOff(source, chars).  One action is one iteration of the   *)
(* main loop of Lexer::lex, sub-scanner calls included.                    *)
(***************************************************************************)
EXTENDS Integers, Sequences, FiniteSets, TLC

(***************************************************************************)
(* Characters                                                              *)
(***************************************************************************)
AsciiDigits == {"0", "1", "2", "3", "4", "5", "6", "7", "8", "9"}

AsciiLower == {"a", "b", "c", "d", "e", "f", "g", "h", "i", "j", "k", "l", "m",
               "n", "o", "p", "q", "r", "s", "t", "u", "v", "w", "x", "y", "z"}

AsciiUpper == {"A", "B", "C", "D", "E", "F", "G", "H", "I", "J", "K", "L", "M",
               "N", "O", "P", "Q", "R", "S", "T", "U", "V", "W", "X", "Y", "Z"}

\* Characters above U+007F that the model knows: two letters (U+00E9,
\* U+4E2D) and three that are not alphabetic (U+00D7, U+20AC, U+1F600).  A
\* character outside Latin-1 is written by its code point.
NonAsciiLetters == {"é", "U+4E2D"}

NonAsciiSymbols == {"×", "U+20AC", "U+1F600"}

NonAscii == NonAsciiLetters \cup NonAsciiSymbols

\* char::len_utf8
len_utf8(ch) ==
    CASE ch = "é" -> 2
      [] ch = "×" -> 2
      [] ch = "U+4E2D" -> 3
      [] ch = "U+20AC" -> 3
      [] ch = "U+1F600" -> 4
      [] OTHER -> 1

\* char::is_ascii_digit
is_ascii_digit(ch) == ch \in AsciiDigits

\* char::is_alphabetic
is_alphabetic(ch) == ch \in AsciiLower \cup AsciiUpper \cup NonAsciiLetters

\* char::is_alphanumeric
is_alphanumeric(ch) == is_alphabetic(ch) \/ ch \in AsciiDigits

\* char::is_ascii_hexdigit
AsciiHexDigits ==
    AsciiDigits \cup {"a", "b", "c", "d", "e", "f"}
                \cup {"A", "B", "C", "D", "E", "F"}

is_ascii_hexdigit(ch) == ch \in AsciiHexDigits

\* char::to_digit(radix); -1 stands for None
to_digit(ch, radix) ==
    LET d == CASE ch = "0" -> 0 [] ch = "1" -> 1 [] ch = "2" -> 2
               [] ch = "3" -> 3 [] ch = "4" -> 4 [] ch = "5" -> 5
               [] ch = "6" -> 6 [] ch = "7" -> 7 [] ch = "8" -> 8
               [] ch = "9" -> 9
               [] ch \in {"a", "A"} -> 10 [] ch \in {"b", "B"} -> 11
               [] ch \in {"c", "C"} -> 12 [] ch \in {"d", "D"} -> 13
               [] ch \in {"e", "E"} -> 14 [] ch \in {"f", "F"} -> 15
               [] OTHER -> -1
    IN  IF d >= 0 /\ d < radix THEN d ELSE -1

(***************************************************************************)
(* Byte offsets (str::char_indices, str::len)                              *)
(***************************************************************************)
RECURSIVE ByteLen(_)
ByteLen(s) == IF s = <<>> THEN 0 ELSE len_utf8(Head(s)) + ByteLen(Tail(s))

\* Byte offset of the k-th character of src (k = Len(src) + 1: src.len()).
ByteOff(src, k) == ByteLen(SubSeq(src, 1, k - 1))

\* Span::new with the two offsets exchanged.
span_swapped(start, end, file) ==
    [start |-> end, end |-> start, file |-> file]

\* Span::new
span(start, end, file) == [start |-> start, end |-> end, file |-> file]

\* Results of the sub-scanners: Ok(..) carries the fields the caller uses,
\* Err(LumeError::Lexical { msg, span }) carries the error.
Lexical(msg, sp) == [ok |-> FALSE, msg |-> msg, span |-> sp]

(***************************************************************************)
(* Signed 64-bit integers.  An i64 is a sign and a magnitude; the          *)
(* magnitude is four 16-bit limbs, most significant first.  The magnitude  *)
(* of a non-negative i64 is below 2^63 (top limb below 2^15); the          *)
(* magnitude of a negative one is at most 2^63.                            *)
(***************************************************************************)
LimbBase == 65536

TopLimbBound == 32768

I64(n) == [neg |-> FALSE, mag |-> <<0, 0, n \div LimbBase, n % LimbBase>>]

I64Zero == I64(0)

\* i64::MAX = 9223372036854775807
I64_MAX == [neg |-> FALSE, mag |-> <<32767, 65535, 65535, 65535>>]

\* i64::MIN = -9223372036854775808
I64_MIN == [neg |-> TRUE, mag |-> <<32768, 0, 0, 0>>]

\* checked_mul_add with the range of u64 in place of that of i64.
checked_mul_add_unsigned(acc, radix, digit) ==
    LET m  == acc.mag
        t4 == m[4] * radix + digit
        t3 == m[3] * radix + (t4 \div LimbBase)
        t2 == m[2] * radix + (t3 \div LimbBase)
        t1 == m[1] * radix + (t2 \div LimbBase)
        r  == <<t1, t2 % LimbBase, t3 % LimbBase, t4 % LimbBase>>
    IN  IF t1 < LimbBase THEN [ok |-> TRUE, val |-> [neg |-> acc.neg, mag |-> r]]
        ELSE [ok |-> FALSE, val |-> I64Zero]

\* One step of i64::from_str_radix: result.checked_mul(radix) and then
\* checked_add(digit) (checked_sub(digit) for a negative number);
\* ok = FALSE stands for None (overflow).
checked_mul_add(acc, radix, digit) ==
    LET m  == acc.mag
        t4 == m[4] * radix + digit
        t3 == m[3] * radix + (t4 \div LimbBase)
        t2 == m[2] * radix + (t3 \div LimbBase)
        t1 == m[1] * radix + (t2 \div LimbBase)
        r  == <<t1, t2 % LimbBase, t3 % LimbBase, t4 % LimbBase>>
        fits == \/ t1 < TopLimbBound
                \/ acc.neg /\ r = I64_MIN.mag
    IN  IF fits THEN [ok |-> TRUE, val |-> [neg |-> acc.neg, mag |-> r]]
        ELSE [ok |-> FALSE, val |-> I64Zero]

RECURSIVE from_str_radix_loop(_, _, _)
from_str_radix_loop(s, radix, acc) ==
    IF s = <<>> THEN [ok |-> TRUE, val |-> acc]
    ELSE LET d == to_digit(Head(s), radix)
         IN  IF d < 0 THEN [ok |-> FALSE, val |-> I64Zero]
             ELSE LET nxt == checked_mul_add(acc, radix, d)
                  IN  IF ~nxt.ok
                      THEN [ok |-> FALSE, val |-> I64Zero]
                      ELSE from_str_radix_loop(Tail(s), radix, nxt.val)

\* i64::from_str_radix: Err on an empty string, on a lone sign, on a
\* character that is no digit of the radix, and on overflow.  A result of
\* magnitude zero is not negative.
from_str_radix(s, radix) ==
    IF s = <<>> \/ s = <<"+">> \/ s = <<"-">>
    THEN [ok |-> FALSE, val |-> I64Zero]
    ELSE LET r == IF Head(s) = "+"
                  THEN from_str_radix_loop(Tail(s), radix, I64Zero)
                  ELSE IF Head(s) = "-"
                  THEN from_str_radix_loop(Tail(s), radix,
                                           [neg |-> TRUE, mag |-> I64Zero.mag])
                  ELSE from_str_radix_loop(s, radix, I64Zero)
         IN  IF r.ok /\ r.val.mag = I64Zero.mag
             THEN [ok |-> TRUE, val |-> I64Zero] ELSE r

\* i64_from_radix
i64_from_radix(s, base) ==
    IF s = <<>> THEN [ok |-> FALSE, val |-> I64Zero]
    ELSE from_str_radix(s, base)

(***************************************************************************)
(* str::parse::<f64>.  The text is accepted when it is                     *)
(*   digits [ "." digits ] [ ("e" | "E") [ "+" | "-" ] digits+ ]           *)
(* with at least one mantissa digit (the lexer never passes a sign, "inf"  *)
(* or "nan").  The value is kept as the decimal number the text denotes:   *)
(* mantissa digits without leading or trailing zeros and a power of ten.   *)
(***************************************************************************)
\* The index after the maximal run of characters of S in s from index k.
RECURSIVE RunEnd(_, _, _)
RunEnd(s, k, S) ==
    IF k <= Len(s) /\ s[k] \in S THEN RunEnd(s, k + 1, S) ELSE k

RECURSIVE DecValue(_)
DecValue(s) ==
    IF s = <<>> THEN 0
    ELSE DecValue(SubSeq(s, 1, Len(s) - 1)) * 10 + to_digit(s[Len(s)], 10)

RECURSIVE StripLeadingZeros(_)
StripLeadingZeros(s) ==
    IF s # <<>> /\ Head(s) = "0" THEN StripLeadingZeros(Tail(s)) ELSE s

RECURSIVE NormalizeDecimal(_, _)
NormalizeDecimal(mant, exp) ==
    IF mant = <<>> THEN [mant |-> <<>>, exp |-> 0]
    ELSE IF mant[Len(mant)] = "0"
         THEN NormalizeDecimal(SubSeq(mant, 1, Len(mant) - 1), exp + 1)
         ELSE [mant |-> mant, exp |-> exp]

f64_parse(text) ==
    LET n      == Len(text)
        intEnd == RunEnd(text, 1, AsciiDigits)
        hasDot == intEnd <= n /\ text[intEnd] = "."
        fracEnd == IF hasDot THEN RunEnd(text, intEnd + 1, AsciiDigits)
                   ELSE intEnd
        int    == SubSeq(text, 1, intEnd - 1)
        frac   == IF hasDot THEN SubSeq(text, intEnd + 1, fracEnd - 1)
                  ELSE <<>>
        hasExp == fracEnd <= n /\ text[fracEnd] \in {"e", "E"}
        hasSign == hasExp /\ fracEnd + 1 <= n
                          /\ text[fracEnd + 1] \in {"+", "-"}
        expStart == IF hasSign THEN fracEnd + 2 ELSE fracEnd + 1
        expEnd == IF hasExp THEN RunEnd(text, expStart, AsciiDigits)
                  ELSE fracEnd
        expDigits == IF hasExp THEN SubSeq(text, expStart, expEnd - 1)
                     ELSE <<>>
        expVal == IF hasSign /\ text[fracEnd + 1] = "-"
                  THEN 0 - DecValue(expDigits) ELSE DecValue(expDigits)
        valid  == /\ Len(int) + Len(frac) > 0
                  /\ hasExp => expDigits # <<>>
                  /\ expEnd = n + 1
    IN  IF valid
        THEN [ok |-> TRUE,
              val |-> NormalizeDecimal(StripLeadingZeros(int \o frac),
                                       expVal - Len(frac))]
        ELSE [ok |-> FALSE, val |-> [mant |-> <<>>, exp |-> 0]]

(***************************************************************************)
(* Tokens (src/lexer/token.rs)                                             *)
(***************************************************************************)
\* A variant without payload: Token::Let, Token::Plus, Token::Eof, ...
Tok(kind) == [kind |-> kind]

TokenInt(v) == [kind |-> "Int", val |-> v]

TokenFloat(v) == [kind |-> "Float", val |-> v]

TokenStr(s) == [kind |-> "Str", s |-> s]

TokenPrefixedStr(prefix, s) == [kind |-> "PrefixedStr", prefix |-> prefix, s |-> s]

TokenChar(c) == [kind |-> "Char", c |-> c]

TokenPrefixedChar(prefix, c) == [kind |-> "PrefixedChar", prefix |-> prefix, c |-> c]

TokenBool(b) == [kind |-> "Bool", b |-> b]

TokenIdent(s) == [kind |-> "Ident", s |-> s]

TokenLifetime(s) == [kind |-> "Lifetime", s |-> s]

TokenEof == Tok("Eof")

(***************************************************************************)
(* Lexer::read_number                                                      *)
(***************************************************************************)
\* The character index of the byte offset off (a character boundary).
CharIndex(src, off) ==
    CHOOSE k \in 1..(Len(src) + 1) : ByteOff(src, k) = off

\* The digits of a base, as the match on `base` lists them.
valid_chars(base) ==
    CASE base = 2  -> {"0", "1"}
      [] base = 8  -> {"0", "1", "2", "3", "4", "5", "6", "7"}
      [] base = 10 -> AsciiDigits
      [] base = 16 -> AsciiDigits \cup {"a", "b", "c", "d", "e", "f"}
                                  \cup {"A", "B", "C", "D", "E", "F"}

\* num_str.chars().filter(|&c| c != '_').collect()
RECURSIVE remove_underscores(_)
remove_underscores(s) ==
    IF s = <<>> THEN <<>>
    ELSE IF Head(s) = "_" THEN remove_underscores(Tail(s))
         ELSE <<Head(s)>> \o remove_underscores(Tail(s))

\* read_number is a chain of stages, one per block of the function; each
\* stage hands on what the blocks before it have set.  Ok((token, end)) is
\* [ok |-> TRUE, tok, end].  sk is the character index of `start`, i counts
\* characters of source[start..] (chars[i] is src[sk + i]).

\* Lines 501-522: the token, from the parse of the cleaned text as a float
\* (parsed) or as an integer (value).
number_token(start, file, is_float, i, parsed, value) ==
    IF is_float
    THEN IF parsed.ok
         THEN [ok |-> TRUE, tok |-> TokenFloat(parsed.val), end |-> start + i]
         ELSE Lexical("invalid float literal", span(start, start + i, file))
    ELSE IF value.ok
         THEN [ok |-> TRUE, tok |-> TokenInt(value.val), end |-> start + i]
         ELSE Lexical("integer literal too large",
                      span(start, start + i, file))

\* number_convert with the first two characters dropped whatever the base.
number_convert_strips_always(start, file, base, is_float, i, clean) ==
    IF \/ clean = <<>> \/ clean = <<".">>
       \/ Head(clean) = "." \/ clean[Len(clean)] = "."
    THEN Lexical("invalid number literal", span(start, start + i, file))
    ELSE number_token(start, file, is_float, i, f64_parse(clean),
                      i64_from_radix(SubSeq(clean, 3, Len(clean)), base))

\* Lines 492-500 and 509-517: the text converted is `clean`, without its
\* two-character prefix when the base is not 10.
number_convert(start, file, base, is_float, i, clean) ==
    IF \/ clean = <<>> \/ clean = <<".">>
       \/ Head(clean) = "." \/ clean[Len(clean)] = "."
    THEN Lexical("invalid number literal", span(start, start + i, file))
    ELSE number_token(start, file, is_float, i, f64_parse(clean),
                      i64_from_radix(IF base # 10
                                     THEN SubSeq(clean, 3, Len(clean))
                                     ELSE clean, base))

\* number_value with the text cut at its first underscore.
number_value_until_underscore(src, start, file, sk, base, is_float, i) ==
    number_convert(start, file, base, is_float, i,
        SubSeq(src, sk,
               RunEnd(SubSeq(src, 1, sk + i - 1), sk,
                      {src[j] : j \in 1..Len(src)} \ {"_"}) - 1))

\* num_str holds every character consumed, in order; `clean` is computed
\* once.
number_value(src, start, file, sk, base, is_float, i) ==
    CHOOSE r \in
        {number_convert(start, file, base, is_float, i, clean) :
            clean \in {remove_underscores(SubSeq(src, sk, sk + i - 1))}} : TRUE

\* Lines 473-490: the exponent's digit run goes from i4 to i5; an
\* underscore sets has_digit as a digit does.
number_exponent_end(src, start, file, sk, base, has_dot, has_exp, i4, i5) ==
    IF has_exp /\ ~(i5 > i4)
    THEN Lexical("invalid exponent", span(start, start + i5, file))
    ELSE number_value(src, start, file, sk, base, has_dot \/ has_exp, i5)

\* Line 465: chars[i] is 'e' or 'E'.
exponent_marker(src, sk, i) ==
    sk + i <= Len(src) /\ src[sk + i] \in {"e", "E"}

\* Lines 468-472: the index after the marker and its optional sign.
exponent_start(src, sk, i) ==
    IF sk + i + 1 <= Len(src) /\ src[sk + i + 1] \in {"+", "-"}
    THEN i + 2 ELSE i + 1

\* Lines 464-483: the exponent.
number_exponent(src, start, file, sk, base, has_dot, i) ==
    number_exponent_end(src, start, file, sk, base, has_dot,
        exponent_marker(src, sk, i),
        exponent_start(src, sk, i),
        IF exponent_marker(src, sk, i)
        THEN RunEnd(src, sk + exponent_start(src, sk, i),
                    AsciiDigits \cup {"_"}) - sk
        ELSE i)

\* Lines 446-448: chars[i] is '.' and chars[i + 1] is a decimal digit.
fraction_follows(src, sk, i) ==
    /\ sk + i <= Len(src) /\ src[sk + i] = "."
    /\ sk + i + 1 <= Len(src) /\ is_ascii_digit(src[sk + i + 1])

\* Lines 445-462: the fraction.
number_fraction(src, start, file, sk, base, i) ==
    number_exponent(src, start, file, sk, base, fraction_follows(src, sk, i),
        IF fraction_follows(src, sk, i)
        THEN RunEnd(src, sk + i + 1, AsciiDigits \cup {"_"}) - sk
        ELSE i)

\* Lines 437-443: a prefixed literal needs a digit of its base in i..i2-1.
number_digits_end(src, start, file, sk, base, i, i2) ==
    IF base # 10 /\ ~(\E j \in i..(i2 - 1) : src[sk + j] \in valid_chars(base))
    THEN Lexical("invalid integer literal", span(start, start + i2, file))
    ELSE number_fraction(src, start, file, sk, base, i2)

\* Lines 413-436: the digit run of a prefixed literal.
number_digits(src, start, file, sk, base, i) ==
    number_digits_end(src, start, file, sk, base, i,
        IF base # 10
        THEN RunEnd(src, sk + i, valid_chars(base) \cup {"_"}) - sk
        ELSE i)

\* number_base with the bases of `b` and `o` exchanged.
number_base_swapped(src, sk) ==
    IF src[sk] = "0" /\ Len(src) - sk + 1 > 1
    THEN CASE src[sk + 1] \in {"x", "X"} -> 16
           [] src[sk + 1] \in {"b", "B"} -> 8
           [] src[sk + 1] \in {"o", "O"} -> 2
           [] OTHER -> 10
    ELSE 10

\* Lines 365-384: `0` and a base letter set the base.
number_base(src, sk) ==
    IF src[sk] = "0" /\ Len(src) - sk + 1 > 1
    THEN CASE src[sk + 1] \in {"x", "X"} -> 16
           [] src[sk + 1] \in {"b", "B"} -> 2
           [] src[sk + 1] \in {"o", "O"} -> 8
           [] OTHER -> 10
    ELSE 10

\* Lines 364-411: the base prefix, or the decimal digit run (which starts
\* after the `0` in one arm and at the first digit in the other).
number_prefix(src, start, file, sk) ==
    number_digits(src, start, file, sk, number_base(src, sk),
        IF number_base(src, sk) # 10 THEN 2
        ELSE IF src[sk] = "0" /\ Len(src) - sk + 1 > 1
             THEN RunEnd(src, sk + 1, AsciiDigits \cup {"_"}) - sk
             ELSE RunEnd(src, sk, AsciiDigits \cup {"_"}) - sk)

read_number(src, start, file) ==
    number_prefix(src, start, file, CharIndex(src, start))

(***************************************************************************)
(* Lexer::read_ident                                                       *)
(***************************************************************************)
\* The characters the loop of read_ident accepts.
ident_continue(ch) == is_alphanumeric(ch) \/ ch = "_" \/ ch \in NonAscii

RECURSIVE IdentEnd(_, _)
IdentEnd(src, k) ==
    IF k <= Len(src) /\ ident_continue(src[k]) THEN IdentEnd(src, k + 1) ELSE k

\* k is the iterator (the character after `first`); the result carries the
\* identifier, the iterator and self.pos = start + len.
read_ident(src, k, first, start) ==
    LET e     == IdentEnd(src, k)
        ident == <<first>> \o SubSeq(src, k, e - 1)
    IN  [ident |-> ident, chars |-> e, pos |-> start + ByteLen(ident)]

(***************************************************************************)
(* Lexer::read_escape                                                      *)
(***************************************************************************)
RECURSIVE HexValue(_)
HexValue(s) ==
    IF s = <<>> THEN 0
    ELSE HexValue(SubSeq(s, 1, Len(s) - 1)) * 16 + to_digit(s[Len(s)], 16)

\* from_u32 without the test for surrogates.
from_u32_allows_surrogates(cp) ==
    IF cp > 1114111
    THEN [ok |-> FALSE, ch |-> ""]
    ELSE [ok |-> TRUE,
          ch |-> CASE cp = 65 -> "A"
                   [] cp = 233 -> "é"
                   [] OTHER -> "U+#" \o ToString(cp)]

\* std::char::from_u32: None (ok = FALSE) for a surrogate and above 10FFFF.
from_u32(cp) ==
    IF (cp >= 55296 /\ cp <= 57343) \/ cp > 1114111
    THEN [ok |-> FALSE, ch |-> ""]
    ELSE [ok |-> TRUE,
          ch |-> CASE cp = 10 -> "\n"
                   [] cp = 48 -> "0"
                   [] cp = 65 -> "A"
                   [] cp = 97 -> "a"
                   [] cp = 215 -> "×"
                   [] cp = 233 -> "é"
                   [] cp = 20013 -> "U+4E2D"
                   [] cp = 8364 -> "U+20AC"
                   [] cp = 128512 -> "U+1F600"
                   [] OTHER -> "U+#" \o ToString(cp)]

\* k is the iterator after the backslash; Ok(ch) is [ok |-> TRUE, ch, chars].
read_escape(src, k, pos, file) ==
    IF k > Len(src)
    THEN Lexical("unterminated escape sequence",
                 span(pos, ByteLen(src), file))
    ELSE LET ch == src[k]
             fixed(c) == [ok |-> TRUE, ch |-> c, chars |-> k + 1]
         IN  CASE ch = "n" -> fixed("\n")
               [] ch = "r" -> fixed("\r")
               [] ch = "t" -> fixed("\t")
               [] ch = "\\" -> fixed("\\")
               [] ch = "\"" -> fixed("\"")
               [] ch = "'" -> fixed("'")
               [] ch = "u" ->
                    IF ~(k + 1 <= Len(src) /\ src[k + 1] = "{")
                    THEN Lexical("expected '{' after \\u",
                                 span(pos, pos + 1, file))
                    ELSE LET he  == RunEnd(src, k + 2, AsciiHexDigits)
                             hex == SubSeq(src, k + 2, he - 1)
                             k2  == IF he <= Len(src) THEN he + 1 ELSE he
                         IN  IF he <= Len(src) /\ src[he] # "}"
                             THEN Lexical("invalid hex digit in \\u{...}",
                                          span(pos, pos + 1, file))
                             ELSE IF hex = <<>> \/ Len(hex) > 6
                             THEN Lexical(
                                    "unicode escape must have 1-6 hex digits",
                                    span(pos, pos + 1, file))
                             ELSE LET c == from_u32(HexValue(hex))
                                  IN  IF c.ok
                                      THEN [ok |-> TRUE, ch |-> c.ch,
                                            chars |-> k2]
                                      ELSE Lexical("invalid unicode codepoint",
                                                   span(pos, pos + 1, file))
               [] OTHER -> Lexical("unknown escape sequence \\" \o ch,
                                   span(pos, pos + 1, file))

(***************************************************************************)
(* Lexer::read_string_content                                              *)
(***************************************************************************)
\* One turn of the loop: k the iterator, pos self.pos, s the content so far.
RECURSIVE string_loop(_, _, _, _, _, _, _)
string_loop(src, k, pos, s, start_pos, allow_escape, file) ==
    IF k > Len(src)
    THEN Lexical("unterminated string literal",
                 span(start_pos, ByteLen(src), file))
    ELSE LET idx == ByteOff(src, k)
             ch  == src[k]
         IN  IF ch = "\""
             THEN [ok |-> TRUE, s |-> s, end |-> pos + 1, chars |-> k + 1]
             ELSE IF allow_escape /\ ch = "\\"
             THEN LET escaped == read_escape(src, k + 1, pos, file)
                  IN  IF ~escaped.ok THEN escaped
                      ELSE string_loop(src, escaped.chars, idx,
                                       Append(s, escaped.ch), start_pos,
                                       allow_escape, file)
             ELSE string_loop(src, k + 1, idx, Append(s, ch), start_pos,
                              allow_escape, file)

\* read_string_content with the error span started at offset 0.
read_string_content_from_zero(src, k, pos, allow_escape, file) ==
    string_loop(src, k, pos, <<>>, 0, allow_escape, file)

\* Ok((s, end)) is [ok |-> TRUE, s, end, chars].
read_string_content(src, k, pos, allow_escape, file) ==
    string_loop(src, k, pos, <<>>, pos, allow_escape, file)

(***************************************************************************)
(* Lexer::read_char_literal, Lexer::read_prefixed_char                     *)
(***************************************************************************)
\* The iterator item after index k, as peek() sees it; "" stands for None
\* (no character of a source is the empty string).
peek(src, k) == IF k <= Len(src) THEN src[k] ELSE ""

\* read_char_literal without the test for the closing quote.
read_char_literal_unchecked(src, k, pos, start, file) ==
    IF k > Len(src)
    THEN Lexical("unterminated character literal",
                 span(start, ByteLen(src), file))
    ELSE IF src[k] = "'"
    THEN Lexical("empty character literal", span(start, start + 2, file))
    ELSE LET esc == IF src[k] = "\\" THEN read_escape(src, k + 1, pos, file)
                    ELSE [ok |-> TRUE, ch |-> src[k], chars |-> k + 1]
         IN  IF ~esc.ok THEN esc
             ELSE LET k2 == IF esc.chars <= Len(src) THEN esc.chars + 1
                            ELSE esc.chars
                  IN  [ok |-> TRUE, tok |-> TokenChar(esc.ch), chars |-> k2,
                       pos |-> IF k2 <= Len(src) THEN ByteOff(src, k2)
                               ELSE ByteLen(src)]

\* k is the iterator after the opening quote; Ok(token) is
\* [ok |-> TRUE, tok, chars, pos].
read_char_literal(src, k, pos, start, file) ==
    IF k > Len(src)
    THEN Lexical("unterminated character literal",
                 span(start, ByteLen(src), file))
    ELSE IF src[k] = "'"
    THEN Lexical("empty character literal", span(start, start + 2, file))
    ELSE LET esc == IF src[k] = "\\" THEN read_escape(src, k + 1, pos, file)
                    ELSE [ok |-> TRUE, ch |-> src[k], chars |-> k + 1]
         IN  IF ~esc.ok THEN esc
             ELSE IF peek(src, esc.chars) # "'"
             THEN Lexical(
                    "character literal must contain exactly one character",
                    span(start, pos + 1, file))
             ELSE LET k2 == esc.chars + 1
                  IN  [ok |-> TRUE, tok |-> TokenChar(esc.ch), chars |-> k2,
                       pos |-> IF k2 <= Len(src) THEN ByteOff(src, k2)
                               ELSE ByteLen(src)]

\* `c as u32` lies in D800..DFFF for no char: a char is a scalar value.
is_surrogate(c) == FALSE

\* read_prefixed_char with the end one byte after the closing quote.
read_prefixed_char_long_end(src, k, pos, prefix, prefix_start, file) ==
    IF k > Len(src)
    THEN Lexical("unterminated character literal",
                 span(prefix_start, ByteLen(src), file))
    ELSE IF src[k] = "'"
    THEN Lexical("empty character literal",
                 span(prefix_start, prefix_start + 2, file))
    ELSE LET content_start == ByteOff(src, k)
             esc == IF src[k] = "\\" THEN read_escape(src, k + 1, pos, file)
                    ELSE [ok |-> TRUE, ch |-> src[k], chars |-> k + 1]
         IN  IF ~esc.ok THEN esc
             ELSE IF is_surrogate(esc.ch)
             THEN Lexical(
                    "character literal contains invalid Unicode surrogate",
                    span(content_start, pos, file))
             ELSE IF peek(src, esc.chars) # "'"
             THEN Lexical(
                    "character literal must contain exactly one character",
                    span(content_start, pos + 1, file))
             ELSE LET k2 == esc.chars + 1
                  IN  [ok |-> TRUE, tok |-> TokenPrefixedChar(prefix, esc.ch),
                       chars |-> k2,
                       end |-> 1 + ByteOff(src, k2)]

\* k is the iterator after the opening quote; Ok((token, end)) is
\* [ok |-> TRUE, tok, end, chars].
read_prefixed_char(src, k, pos, prefix, prefix_start, file) ==
    IF k > Len(src)
    THEN Lexical("unterminated character literal",
                 span(prefix_start, ByteLen(src), file))
    ELSE IF src[k] = "'"
    THEN Lexical("empty character literal",
                 span(prefix_start, prefix_start + 2, file))
    ELSE LET content_start == ByteOff(src, k)
             esc == IF src[k] = "\\" THEN read_escape(src, k + 1, pos, file)
                    ELSE [ok |-> TRUE, ch |-> src[k], chars |-> k + 1]
         IN  IF ~esc.ok THEN esc
             ELSE IF is_surrogate(esc.ch)
             THEN Lexical(
                    "character literal contains invalid Unicode surrogate",
                    span(content_start, pos, file))
             ELSE IF peek(src, esc.chars) # "'"
             THEN Lexical(
                    "character literal must contain exactly one character",
                    span(content_start, pos + 1, file))
             ELSE LET k2 == esc.chars + 1
                  IN  [ok |-> TRUE, tok |-> TokenPrefixedChar(prefix, esc.ch),
                       chars |-> k2,
                       end |-> IF k2 <= Len(src) THEN ByteOff(src, k2)
                               ELSE ByteLen(src)]

(***************************************************************************)
(* Lexer::skip_line_comment, Lexer::skip_block_comment                     *)
(***************************************************************************)
\* The iterator after the comment: past the next newline, or at the end.
RECURSIVE skip_line_comment(_, _)
skip_line_comment(src, k) ==
    IF k > Len(src) THEN k
    ELSE IF src[k] = "\n" THEN k + 1
    ELSE skip_line_comment(src, k + 1)

\* One turn of `while depth > 0`; Ok(()) is [ok |-> TRUE, chars].
RECURSIVE block_comment_loop(_, _, _, _)
block_comment_loop(src, k, depth, file) ==
    IF depth <= 0 THEN [ok |-> TRUE, chars |-> k]
    ELSE IF k > Len(src)
    THEN Lexical("unterminated block comment", span(0, ByteLen(src), file))
    ELSE IF src[k] = "*"
    THEN IF peek(src, k + 1) = "/"
         THEN block_comment_loop(src, k + 2, depth - 1, file)
         ELSE block_comment_loop(src, k + 1, depth, file)
    ELSE IF src[k] = "/"
    THEN IF peek(src, k + 1) = "*"
         THEN block_comment_loop(src, k + 2, depth + 1, file)
         ELSE block_comment_loop(src, k + 1, depth, file)
    ELSE block_comment_loop(src, k + 1, depth, file)

\* skip_block_comment that stops at the first `*/`, whatever the depth.
skip_block_comment_unnested(src, k, file) ==
    IF \E j \in k..(Len(src) - 1) : src[j] = "*" /\ src[j + 1] = "/"
    THEN [ok |-> TRUE,
          chars |-> 2 + CHOOSE j \in k..(Len(src) - 1) :
                          /\ src[j] = "*" /\ src[j + 1] = "/"
                          /\ \A i \in k..(j - 1) :
                                ~(src[i] = "*" /\ src[i + 1] = "/")]
    ELSE Lexical("unterminated block comment", span(0, ByteLen(src), file))

skip_block_comment(src, k, file) == block_comment_loop(src, k, 1, file)

(***************************************************************************)
(* token::keyword_or_ident                                                 *)
(***************************************************************************)
keyword_or_ident(ident) ==
    CASE ident = <<"l", "e", "t">> -> Tok("Let")
      [] ident = <<"m", "u", "t">> -> Tok("Mut")
      [] ident = <<"f", "u", "n", "c">> -> Tok("Func")
      [] ident = <<"i", "f">> -> Tok("If")
      [] ident = <<"e", "l", "s", "e">> -> Tok("Else")
      [] ident = <<"m", "a", "t", "c", "h">> -> Tok("Match")
      [] ident = <<"c", "a", "s", "e">> -> Tok("Case")
      [] ident = <<"o", "n">> -> Tok("On")
      [] ident = <<"o", "w", "n">> -> Tok("Own")
      [] ident = <<"t", "h", "r", "o", "w", "s">> -> Tok("Throws")
      [] ident = <<"r", "e", "c", "o", "v", "e", "r">> -> Tok("Recover")
      [] ident = <<"r", "e", "t", "u", "r", "n">> -> Tok("Return")
      [] ident = <<"i", "m", "p", "o", "r", "t">> -> Tok("Import")
      [] ident = <<"e", "x", "p", "o", "r", "t">> -> Tok("Export")
      [] ident = <<"f", "r", "o", "m">> -> Tok("From")
      [] ident = <<"e", "n", "u", "m">> -> Tok("Enum")
      [] ident = <<"c", "l", "a", "s", "s">> -> Tok("Class")
      [] ident = <<"w", "i", "t", "h">> -> Tok("With")
      [] ident = <<"t", "y", "p", "e">> -> Tok("Type")
      [] ident = <<"i", "s">> -> Tok("Is")
      [] ident = <<"a", "n", "d">> -> Tok("And")
      [] ident = <<"o", "r">> -> Tok("Or")
      [] ident = <<"n", "o", "t">> -> Tok("Not")
      [] ident = <<"t", "r", "u", "e">> -> TokenBool(TRUE)
      [] ident = <<"f", "a", "l", "s", "e">> -> TokenBool(FALSE)
      [] OTHER -> TokenIdent(ident)

(***************************************************************************)
(* The lexer: state, Lexer::new and the main loop of Lexer::lex            *)
(***************************************************************************)
VARIABLES
    input,    \* the text handed to lex(source, file)
    source,   \* Lexer::source: the text scanned (after the shebang line)
    file,     \* Lexer::file
    chars,    \* Lexer::chars: index of the next character of source
    pos,      \* Lexer::pos
    tokens,   \* Lexer::tokens: sequence of <<token, span>>
    result    \* what lex() has returned: "running" until it returns

vars == <<input, source, file, chars, pos, tokens, result>>

\* str::starts_with("#!") and str::find('\n') of Lexer::new
RECURSIVE find(_, _, _)
find(s, ch, k) ==
    IF k > Len(s) THEN 0
    ELSE IF s[k] = ch THEN k ELSE find(s, ch, k + 1)

\* Lexer::new with the newline of the shebang line left in the source.
new_keeps_newline(src) ==
    IF Len(src) >= 2 /\ src[1] = "#" /\ src[2] = "!"
    THEN LET idx == find(src, "\n", 1)
         IN  IF idx # 0 THEN SubSeq(src, idx, Len(src)) ELSE <<>>
    ELSE src

new(src) ==
    IF Len(src) >= 2 /\ src[1] = "#" /\ src[2] = "!"
    THEN LET idx == find(src, "\n", 1)
         IN  IF idx # 0 THEN SubSeq(src, idx + 1, Len(src)) ELSE <<>>
    ELSE src

Running == [status |-> "running", tokens |-> <<>>, msg |-> "",
            span |-> span(0, 0, "")]

\* Ok(std::mem::take(&mut self.tokens))
Ok(toks) == [status |-> "ok", tokens |-> toks, msg |-> "",
             span |-> span(0, 0, "")]

\* Err(LumeError::Lexical { msg, span })
Err(e) == [status |-> "err", tokens |-> <<>>, msg |-> e.msg, span |-> e.span]

\* Lexer::push_token
push_token(toks, tok, sp) == Append(toks, <<tok, sp>>)

\* `while let Some((start, ch)) = self.chars.next()` yields a character
AtChar == result.status = "running" /\ chars <= Len(source)

ch == source[chars]

start == ByteOff(source, chars)

\* `return Err(..)` / `?` out of lex(): the lexer is dropped
Fail(e) ==
    /\ result' = Err(e)
    /\ pos' = start
    /\ UNCHANGED <<input, source, file, chars, tokens>>

\* A token was pushed and the loop goes on
Emit(tok, sp, k, p) ==
    /\ tokens' = push_token(tokens, tok, sp)
    /\ chars' = k
    /\ pos' = p
    /\ UNCHANGED <<input, source, file, result>>

\* `continue` without a token
Skip(k) ==
    /\ chars' = k
    /\ pos' = start
    /\ UNCHANGED <<input, source, file, tokens, result>>

\* ' ' | '\t' | '\n' | '\r' => continue
LexWhitespace ==
    /\ AtChar
    /\ ch \in {" ", "\t", "\n", "\r"}
    /\ Skip(chars + 1)

\* `while let Some(&(pos, _)) = self.chars.peek() { if pos < end {next} }`
RECURSIVE advance_to(_, _, _)
advance_to(src, k, end) ==
    IF k <= Len(src) /\ ByteOff(src, k) < end
    THEN advance_to(src, k + 1, end) ELSE k

\* LexNumber without the loop that advances the iterator to `end`.
LexNumber_without_advance ==
    /\ AtChar
    /\ ch \in AsciiDigits
    /\ LET r == read_number(source, start, file)
       IN  IF ~r.ok THEN Fail(r)
           ELSE Emit(r.tok, span(start, r.end, file), chars + 1, r.end)

\* '0'..='9'
LexNumber ==
    /\ AtChar
    /\ ch \in AsciiDigits
    /\ LET r == read_number(source, start, file)
       IN  IF ~r.ok THEN Fail(r)
           ELSE Emit(r.tok, span(start, r.end, file),
                     advance_to(source, chars + 1, r.end), r.end)

\* LexIdent with escapes processed in the content of a prefixed string.
LexIdent_escapes ==
    /\ AtChar
    /\ ch \in AsciiLower \cup AsciiUpper \cup {"_"} \cup NonAscii
    /\ LET id == read_ident(source, chars + 1, ch, start)
       IN  CASE peek(source, id.chars) = "\"" ->
                  LET r == read_string_content(source, id.chars + 1, id.pos,
                                               TRUE, file)
                  IN  IF ~r.ok THEN Fail(r)
                      ELSE Emit(TokenPrefixedStr(id.ident, r.s),
                                span(start, r.end, file), r.chars, r.end)
             [] peek(source, id.chars) = "'" ->
                  LET r == read_prefixed_char(source, id.chars + 1, id.pos,
                                              id.ident, start, file)
                  IN  IF ~r.ok THEN Fail(r)
                      ELSE Emit(r.tok, span(start, r.end, file), r.chars,
                                r.end)
             [] OTHER ->
                  Emit(keyword_or_ident(id.ident),
                       span(start, id.pos, file), id.chars, id.pos)

\* 'a'..='z' | 'A'..='Z' | '_' | '\u{80}'..='\u{10FFFF}'
LexIdent ==
    /\ AtChar
    /\ ch \in AsciiLower \cup AsciiUpper \cup {"_"} \cup NonAscii
    /\ LET id == read_ident(source, chars + 1, ch, start)
       IN  CASE peek(source, id.chars) = "\"" ->
                  LET r == read_string_content(source, id.chars + 1, id.pos,
                                               FALSE, file)
                  IN  IF ~r.ok THEN Fail(r)
                      ELSE Emit(TokenPrefixedStr(id.ident, r.s),
                                span(start, r.end, file), r.chars, r.end)
             [] peek(source, id.chars) = "'" ->
                  LET r == read_prefixed_char(source, id.chars + 1, id.pos,
                                              id.ident, start, file)
                  IN  IF ~r.ok THEN Fail(r)
                      ELSE Emit(r.tok, span(start, r.end, file), r.chars,
                                r.end)
             [] OTHER ->
                  Emit(keyword_or_ident(id.ident),
                       span(start, id.pos, file), id.chars, id.pos)

\* LexString without escape processing.
LexString_raw ==
    /\ AtChar
    /\ ch = "\""
    /\ LET r == read_string_content(source, chars + 1, start, FALSE, file)
       IN  IF ~r.ok THEN Fail(r)
           ELSE Emit(TokenStr(r.s), span(start, r.end, file), r.chars, r.end)

\* '"'
LexString ==
    /\ AtChar
    /\ ch = "\""
    /\ LET r == read_string_content(source, chars + 1, start, TRUE, file)
       IN  IF ~r.ok THEN Fail(r)
           ELSE Emit(TokenStr(r.s), span(start, r.end, file), r.chars, r.end)

\* LexQuote taking a name that ends the input as a lifetime.
LexQuote_lifetime_at_end ==
    /\ AtChar
    /\ ch = "'"
    /\ LET first_ch == peek(source, chars + 1)
           second   == peek(source, chars + 2)
           eoi      == Lexical("unexpected end of input after quote",
                               span(start, start + 1, file))
           lit      == read_char_literal(source, chars + 1, start, start, file)
           char_literal ==
               IF ~lit.ok THEN Fail(lit)
               ELSE Emit(lit.tok, span(start, lit.pos, file), lit.chars,
                         lit.pos)
       IN  IF first_ch = "" THEN Fail(eoi)
           ELSE IF is_alphabetic(first_ch) \/ first_ch = "_"
           THEN IF second = "'" THEN char_literal
                ELSE LET id == read_ident(source, chars + 2, first_ch,
                                          start + 1)
                     IN  Emit(TokenLifetime(id.ident),
                              span(start, id.pos, file), id.chars, id.pos)
           ELSE char_literal

\* '\'': character literal or lifetime, by two characters of lookahead
LexQuote ==
    /\ AtChar
    /\ ch = "'"
    /\ LET first_ch == peek(source, chars + 1)
           second   == peek(source, chars + 2)
           eoi      == Lexical("unexpected end of input after quote",
                               span(start, start + 1, file))
           lit      == read_char_literal(source, chars + 1, start, start, file)
           char_literal ==
               IF ~lit.ok THEN Fail(lit)
               ELSE Emit(lit.tok, span(start, lit.pos, file), lit.chars,
                         lit.pos)
       IN  IF first_ch = "" THEN Fail(eoi)
           ELSE IF is_alphabetic(first_ch) \/ first_ch = "_"
           THEN IF second = "'" THEN char_literal
                ELSE IF second # ""
                THEN LET id == read_ident(source, chars + 2, first_ch,
                                          start + 1)
                     IN  Emit(TokenLifetime(id.ident),
                              span(start, id.pos, file), id.chars, id.pos)
                ELSE Fail(eoi)
           ELSE char_literal

\* Operator taking the one-character token whatever follows.
Operator_short_first(short, long, next) ==
    Emit(Tok(short), span(start, start + 1, file), chars + 1, start)

\* An operator of one character that a following `next` extends to `long`
\* (`if self.peek() == Some(next) { self.chars.next(); push long }`).
Operator(short, long, next) ==
    IF peek(source, chars + 1) = next
    THEN Emit(Tok(long), span(start, start + 2, file), chars + 2, start)
    ELSE Emit(Tok(short), span(start, start + 1, file), chars + 1, start)

\* '='
LexEq ==
    /\ AtChar
    /\ ch = "="
    /\ IF peek(source, chars + 1) = "="
       THEN Emit(Tok("EqEq"), span(start, start + 2, file), chars + 2, start)
       ELSE Operator("Eq", "FatArrow", ">")

\* '!' taken as the logical NOT when no '=' follows.
LexBang_accepts_not ==
    /\ AtChar
    /\ ch = "!"
    /\ Operator("Not", "Neq", "=")

\* '!'
LexBang ==
    /\ AtChar
    /\ ch = "!"
    /\ IF peek(source, chars + 1) = "="
       THEN Emit(Tok("Neq"), span(start, start + 2, file), chars + 2, start)
       ELSE Fail(Lexical("unexpected '!'; logical NOT is written as 'not'",
                         span(start, start + 1, file)))

\* '<' and '>': shift, shift-assign, comparison
Angle(c, one, eq, shift, shift_eq) ==
    IF peek(source, chars + 1) = c
    THEN IF peek(source, chars + 2) = "="
         THEN Emit(Tok(shift_eq), span(start, start + 3, file), chars + 3,
                   start)
         ELSE Emit(Tok(shift), span(start, start + 2, file), chars + 2, start)
    ELSE Operator(one, eq, "=")

LexLt ==
    /\ AtChar
    /\ ch = "<"
    /\ Angle("<", "Lt", "Le", "Shl", "ShlEq")

LexGt ==
    /\ AtChar
    /\ ch = ">"
    /\ Angle(">", "Gt", "Ge", "Shr", "ShrEq")

\* '+' | '*' | '%' | '&' | '|' | '^': the operator or its compound assignment
LexArith ==
    /\ AtChar
    /\ CASE ch = "+" -> Operator("Plus", "PlusEq", "=")
         [] ch = "*" -> Operator("Star", "StarEq", "=")
         [] ch = "%" -> Operator("Percent", "PercentEq", "=")
         [] ch = "&" -> Operator("Amp", "AmpEq", "=")
         [] ch = "|" -> Operator("Pipe", "PipeEq", "=")
         [] ch = "^" -> Operator("Caret", "CaretEq", "=")
         [] OTHER -> FALSE

\* '-'
LexMinus ==
    /\ AtChar
    /\ ch = "-"
    /\ IF peek(source, chars + 1) = ">"
       THEN Emit(Tok("Arrow"), span(start, start + 2, file), chars + 2, start)
       ELSE Operator("Minus", "MinusEq", "=")

\* '/': line comment, block comment, SlashEq or Slash
LexSlash ==
    /\ AtChar
    /\ ch = "/"
    /\ CASE peek(source, chars + 1) = "/" ->
              Skip(skip_line_comment(source,
                     IF peek(source, chars + 2) = "/" THEN chars + 3
                     ELSE chars + 2))
         [] peek(source, chars + 1) = "*" ->
              LET r == skip_block_comment(source, chars + 2, file)
              IN  IF ~r.ok THEN Fail(r) ELSE Skip(r.chars)
         [] OTHER -> Operator("Slash", "SlashEq", "=")

\* '(' | ')' | '{' | '}' | '[' | ']' | ';' | ',' | ':' | '.' | '?'
Delimiters == {"(", ")", "{", "}", "[", "]", ";", ",", ":", ".", "?"}

delimiter(c) ==
    CASE c = "(" -> "LParen" [] c = ")" -> "RParen"
      [] c = "{" -> "LBrace" [] c = "}" -> "RBrace"
      [] c = "[" -> "LBracket" [] c = "]" -> "RBracket"
      [] c = ";" -> "Semicolon" [] c = "," -> "Comma"
      [] c = ":" -> "Colon" [] c = "." -> "Dot"
      [] c = "?" -> "Question"

LexDelimiter ==
    /\ AtChar
    /\ ch \in Delimiters
    /\ Emit(Tok(delimiter(ch)), span(start, start + 1, file), chars + 1,
            start)

\* _ => unexpected character
LexUnexpected ==
    /\ AtChar
    /\ ch \notin {" ", "\t", "\n", "\r"} \cup AsciiDigits \cup AsciiLower
                \cup AsciiUpper \cup {"_"} \cup NonAscii
                \cup {"\"", "'", "=", "!", "<", ">", "+", "-", "*", "/", "%",
                      "&", "|", "^"} \cup Delimiters
    /\ Fail(Lexical("unexpected character: '" \o ch \o "'",
                    span(start, start + len_utf8(ch), file)))

\* The iterator is exhausted and the tokens are returned as they are.
LexEof_without_push ==
    /\ result.status = "running"
    /\ chars > Len(source)
    /\ result' = Ok(tokens)
    /\ tokens' = <<>>
    /\ UNCHANGED <<input, source, file, chars, pos>>

\* The iterator is exhausted: push Eof and return the tokens
LexEof ==
    /\ result.status = "running"
    /\ chars > Len(source)
    /\ result' = Ok(push_token(tokens, TokenEof,
                               span(ByteLen(source), ByteLen(source), file)))
    /\ tokens' = <<>>
    /\ UNCHANGED <<input, source, file, chars, pos>>

Next ==
    \/ LexWhitespace
    \/ LexNumber
    \/ LexIdent
    \/ LexString
    \/ LexQuote
    \/ LexEq
    \/ LexBang
    \/ LexLt
    \/ LexGt
    \/ LexArith
    \/ LexMinus
    \/ LexSlash
    \/ LexDelimiter
    \/ LexUnexpected
    \/ LexEof

(***************************************************************************)
(* The texts scanned                                                       *)
(***************************************************************************)
\* All sequences over S of length at most n.
SeqsUpTo(S, n) == UNION {[1..m -> S] : m \in 0..n}

\* n copies of c.
Rep(c, n) == [i \in 1..n |-> c]

\* Every text of at most MaxLen characters over one or two characters of
\* each class the dispatch of lex() distinguishes.
MaxLen == 3

Alphabet == {" ", "\n", "0", "e", "_", "é", "\"", "'", "\\", "=", "!", "<",
             ">", "&", "-", "/", "*", ".", "#"}

Sources == SeqsUpTo(Alphabet, MaxLen)

\* Literals with a base prefix: the prefix and at most MaxDigits characters.
MaxDigits == 3

PrefixedTail == {"0", "1", "7", "9", "f", "e", "_", "."}

PrefixedLiterals ==
    {<<"0", p>> \o t : p \in {"x", "X", "b", "B", "o", "O"},
                       t \in SeqsUpTo(PrefixedTail, MaxDigits)}

\* Decimal literals: a digit and at most MaxDecimalTail characters.
MaxDecimalTail == 3

DecimalTail == {"0", "9", "_", ".", "e", "E", "-", "x"}

DecimalLiterals ==
    {<<d>> \o t : d \in {"0", "1", "9"},
                  t \in SeqsUpTo(DecimalTail, MaxDecimalTail)}

\* The decimal text of an i64 (i64::to_string): the magnitude is divided by
\* ten, limb by limb, until nothing is left.
DivMod10(m) ==
    LET c2 == (m[1] % 10) * LimbBase + m[2]
        c3 == (c2 % 10) * LimbBase + m[3]
        c4 == (c3 % 10) * LimbBase + m[4]
    IN  [q |-> <<m[1] \div 10, c2 \div 10, c3 \div 10, c4 \div 10>>,
         r |-> c4 % 10]

DigitChar(d) ==
    CASE d = 0 -> "0" [] d = 1 -> "1" [] d = 2 -> "2" [] d = 3 -> "3"
      [] d = 4 -> "4" [] d = 5 -> "5" [] d = 6 -> "6" [] d = 7 -> "7"
      [] d = 8 -> "8" [] d = 9 -> "9"

RECURSIVE to_decimal(_)
to_decimal(m) ==
    IF m = <<0, 0, 0, 0>> THEN <<>>
    ELSE to_decimal(DivMod10(m).q) \o <<DigitChar(DivMod10(m).r)>>

to_string(v) ==
    IF v.mag = <<0, 0, 0, 0>> THEN <<"0">>
    ELSE (IF v.neg THEN <<"-">> ELSE <<>>) \o to_decimal(v.mag)

\* i64 values over the whole range: every combination of a few limb
\* values, of either sign, and i64::MIN.
TopLimbSamples == {0, 1, 32767}

LimbSamples == {0, 1, 65535}

I64Samples ==
    {v \in [neg : BOOLEAN,
            mag : TopLimbSamples \X LimbSamples \X LimbSamples
                  \X LimbSamples] :
        ~(v.neg /\ v.mag = <<0, 0, 0, 0>>)}
    \cup {I64_MIN}

I64Text == [v \in I64Samples |-> to_string(v)]

I64Texts == {I64Text[v] : v \in I64Samples}

\* Integer literals around the largest i64, in the four bases:
\* 9223372036854775800 .. 9223372036854775809, and 2^63 - 1, 2^63, 2^64 - 1
\* and 2^64 written in base 16, 8 and 2, some with leading zeros or
\* underscores.
BoundaryLiterals ==
    {<<"9", "2", "2", "3", "3", "7", "2", "0", "3", "6", "8", "5", "4", "7",
       "7", "5", "8", "0">> \o <<d>> : d \in AsciiDigits}
    \cup {<<"0", "0">> \o to_string(I64_MAX),
          <<"1">> \o Rep("0", 19),
          <<"9", "_">> \o Rep("9", 18),
          <<"0", "x", "7">> \o Rep("F", 15),
          <<"0", "X", "7">> \o Rep("f", 15),
          <<"0", "x", "0", "_", "7">> \o Rep("f", 15),
          <<"0", "x", "8">> \o Rep("0", 15),
          <<"0", "x">> \o Rep("F", 16),
          <<"0", "x", "1">> \o Rep("0", 16),
          <<"0", "o">> \o Rep("7", 21),
          <<"0", "o", "0">> \o Rep("7", 21),
          <<"0", "o", "1">> \o Rep("0", 21),
          <<"0", "O", "1">> \o Rep("7", 21),
          <<"0", "b">> \o Rep("1", 63),
          <<"0", "B", "0", "_">> \o Rep("1", 63),
          <<"0", "b", "1">> \o Rep("0", 63),
          <<"0", "b">> \o Rep("1", 64)}

\* Identifier runs: letters, a digit, an underscore, non-ASCII characters
\* that are no letters, and the two quotes that may follow a run.
MaxIdentLen == 3

IdentAlphabet == {"a", "1", "_", "é", "×", "U+20AC", "'", "\"", " "}

IdentTexts == SeqsUpTo(IdentAlphabet, MaxIdentLen)

\* Prefixed strings: a one-character prefix, the opening quote and at most
\* MaxRawTail characters of backslashes, quotes and letters.
MaxRawTail == 3

RawTail == {"a", "n", "\\", "\""}

RawTexts ==
    {<<p, "\"">> \o t : p \in {"r", "_", "é"},
                        t \in SeqsUpTo(RawTail, MaxRawTail)}

\* Unicode escapes in a plain string, a character literal and a prefixed
\* character literal: `\u` and a body, which is a braced run of at most
\* MaxHexDigits characters, a longer braced run, or a run without its
\* opening brace.
MaxHexDigits == 4

HexAlphabet == {"0", "D", "8", "F", "g"}

LongHex ==
    {<<"1", "0", "F", "F", "F", "F">>, <<"1", "1", "0", "0", "0", "0">>,
     <<"0", "1", "F", "6", "0", "0">>, <<"F", "F", "F", "F", "F", "F">>,
     <<"0", "0", "0", "0", "4", "1">>, <<"0", "0", "0", "0", "0", "4", "1">>,
     <<"0", "0", "0", "0", "4", "E", "2", "D">>,
     <<"0", "0", "D", "8", "0", "0">>, <<"0", "0", "d", "f", "f", "f">>,
     <<"e", "9">>, <<"4", "1">>, <<"2", "0", "A", "C">>,
     <<"d", "7", "f", "f">>, <<"E", "0", "0", "0">>}

EscapeBodies ==
    {<<"{">> \o h \o <<"}">> :
        h \in SeqsUpTo(HexAlphabet, MaxHexDigits) \cup LongHex}
    \cup {<<>>, <<"4", "1">>, <<"4", "1", "}">>, <<"{", "4", "1">>}

UnicodeEscapeTexts ==
    {<<"\"", "\\", "u">> \o b \o <<"\"">> : b \in EscapeBodies}
    \cup {<<"'", "\\", "u">> \o b \o <<"'">> : b \in EscapeBodies}
    \cup {<<"r", "'", "\\", "u">> \o b \o <<"'">> : b \in EscapeBodies}

\* One backslash and one character after it, in a plain string (alone or
\* next to a letter), a character literal and a prefixed character
\* literal; and the four literals that end with the backslash.
EscapeCharacters ==
    {"n", "r", "t", "\\", "\"", "'", "a", "0", "e", "x", " ", "N", "{"}

Affixes == {<<>>, <<"a">>}

StringWith(pre, c, post) ==
    <<"\"">> \o pre \o <<"\\", c>> \o post \o <<"\"">>

OpenEscapes ==
    {<<"\"", "\\">>, <<"\"", "a", "\\">>, <<"'", "\\">>, <<"r", "'", "\\">>}

EscapeTexts ==
    {StringWith(pre, c, post) :
        pre \in Affixes, c \in EscapeCharacters, post \in Affixes}
    \cup {<<"'", "\\", c, "'">> : c \in EscapeCharacters}
    \cup {<<"r", "'", "\\", c, "'">> : c \in EscapeCharacters}
    \cup OpenEscapes

\* Character literals, plain and prefixed: the opening quote and at most
\* MaxCharTail characters.
MaxCharTail == 3

CharTail == {"1", "2", "a", "n", "'", "\\"}

CharTexts ==
    {p \o <<"'">> \o t : p \in {<<>>, <<"r">>},
                         t \in SeqsUpTo(CharTail, MaxCharTail)}

\* Block comments built by their grammar: `/*`, a piece of text, and `*/`,
\* or with one comment of the level below between two pieces; the pieces
\* neither start nor end with `*` or `/`.  MaxNesting is the deepest
\* level.
MaxNesting == 2

CommentPieces == {<<>>, <<" ", "*", " ">>, <<"a", "/", "a">>, <<"\"">>}

RECURSIVE Comments(_)
Comments(d) ==
    IF d = 1
    THEN {<<"/", "*">> \o p \o <<"*", "/">> : p \in CommentPieces}
    ELSE Comments(d - 1)
         \cup {<<"/", "*">> \o p \o c \o q \o <<"*", "/">> :
                  p \in CommentPieces, q \in CommentPieces,
                  c \in Comments(d - 1)}

NestedComments == Comments(MaxNesting)

\* Texts to scan after a comment or a shebang line.
TailTexts ==
    {<<>>, <<"e">>, <<"0", "=">>, <<"é">>,
     <<"l", "e", "t", " ", "x", " ", "=", " ", "1", ";">>}

CommentedTexts == {c \o t : c \in NestedComments, t \in TailTexts}

\* Shebang lines, with and without their newline, in front of a text.
ShebangLines ==
    {<<"#", "!">> \o l :
        l \in {<<>>, <<"/", "b", "i", "n">>, <<" ", "\"", "#", "!">>}}

SecondShebang == {<<"#", "!", "b">>, <<"#", "!", "b", "\n", "e">>}

ShebangTexts ==
    ShebangLines
    \cup {l \o <<"\n">> \o t : l \in ShebangLines,
                                t \in TailTexts \cup SecondShebang}
    \cup SecondShebang

\* A single quote, a name and what may follow it.
LifetimeNames ==
    {<<"a">>, <<"i", "f">>, <<"s", "t", "a", "t", "i", "c">>,
     <<"_", "x", "1">>, <<"é", "a">>}

LifetimeTexts ==
    {<<"'">> \o n \o f :
        n \in LifetimeNames,
        f \in {<<>>, <<" ">>, <<"'">>, <<",">>, <<"×", "b">>, <<"'", "a">>}}

\* The keywords, some near misses of them and some other names, alone or
\* before a space, a comma, a quote or a quoted text.
KeywordNames ==
    {<<"l", "e", "t">>,
     <<"m", "u", "t">>,
     <<"f", "u", "n", "c">>,
     <<"i", "f">>,
     <<"e", "l", "s", "e">>,
     <<"m", "a", "t", "c", "h">>,
     <<"c", "a", "s", "e">>,
     <<"o", "n">>,
     <<"o", "w", "n">>,
     <<"t", "h", "r", "o", "w", "s">>,
     <<"r", "e", "c", "o", "v", "e", "r">>,
     <<"r", "e", "t", "u", "r", "n">>,
     <<"i", "m", "p", "o", "r", "t">>,
     <<"e", "x", "p", "o", "r", "t">>,
     <<"f", "r", "o", "m">>,
     <<"e", "n", "u", "m">>,
     <<"c", "l", "a", "s", "s">>,
     <<"w", "i", "t", "h">>,
     <<"t", "y", "p", "e">>,
     <<"i", "s">>,
     <<"a", "n", "d">>,
     <<"o", "r">>,
     <<"n", "o", "t">>,
     <<"t", "r", "u", "e">>,
     <<"f", "a", "l", "s", "e">>}

NearKeywords ==
    {<<"L", "e", "t">>, <<"T", "R", "U", "E">>, <<"F", "a", "l", "s", "e">>,
     <<"l", "e", "t", "s">>, <<"l", "e">>, <<"n", "o", "t", "_">>,
     <<"i", "f", "1">>, <<"x">>, <<"é", "t", "é">>}

KeywordTexts ==
    {n \o f :
        n \in KeywordNames \cup NearKeywords,
        f \in {<<>>, <<" ">>, <<",">>, <<"\"">>, <<"'">>,
               <<"\"", "a", "\"">>, <<"'", "a", "'">>, <<"×">>}}

\* An operator character and at most MaxOperatorTail characters after it.
MaxOperatorTail == 2

OperatorCharacters ==
    {"=", "!", "<", ">", "+", "-", "*", "/", "%", "&", "|", "^"}

OperatorTexts ==
    {<<c>> \o t :
        c \in OperatorCharacters,
        t \in SeqsUpTo({"=", "<", ">", "a"}, MaxOperatorTail)}

\* One or more short texts for each arm of the main loop and each loop of
\* the sub-scanners.
LoopTexts ==
    {<<>>,
     <<" ", "\n", "\t", " ", "1">>,
     <<"4", "2">>,
     <<"4", "2", " ">>,
     <<"1", "_", "0">>,
     <<"3", ".", "1", "4">>,
     <<"1", "e", "5">>,
     <<"1", "e">>,
     <<"1", "2", ".", "x">>,
     <<"0", "x", "2", "A">>,
     <<"0", "b">>,
     <<"0", "7">>,
     <<"9", " ", "9">>,
     <<"a", "b", "c">>,
     <<"a", "1", "_", "é">>,
     <<"x", "×">>,
     <<"_">>,
     <<"\"", "a", "b", "c", "\"">>,
     <<"\"", "a", "\\", "n", "\"">>,
     <<"\"", "a", "b", "c">>,
     <<"\"", "\\", "u", "{", "4", "1", "}", "\"">>,
     <<"\"", "\\", "u", "{">>,
     <<"\"", "\\", "q", "\"">>,
     <<"r", "\"", "a", "\\", "b", "\"">>,
     <<"r", "\"", "a">>,
     <<"'", "a", "'">>,
     <<"'", "\\", "n", "'">>,
     <<"'", "a", "b", "'">>,
     <<"b", "'", "x", "'">>,
     <<"'", "'">>,
     <<"'">>,
     <<"/", "/", " ", "a", "\n", "b">>,
     <<"/", "/", "/", " ", "a">>,
     <<"/", "/">>,
     <<"/", "*", " ", "a", " ", "*", "/", "b">>,
     <<"/", "*", "/", "*", "a", "*", "/", "*", "/", "x">>,
     <<"/", "*", " ", "a">>,
     <<"/", "*", "/", "*", "a", "*", "/">>,
     <<"/", "*", "*", "/">>,
     <<"#", "!", "a", "\n", "b">>,
     <<"#", "!">>,
     <<"#">>,
     <<"@">>,
     <<"a", "#">>,
     <<"!">>,
     <<"!", "=">>,
     <<"(", "a", ")">>,
     <<"a", ".", "b">>,
     <<"x", "=", "1", ";">>,
     <<"a", "/", "b">>,
     <<"a", " ", "/", " ", "/", "b">>,
     <<"a", "=", "=", "b">>,
     <<"<", "<", "=">>,
     <<">", ">", "a">>,
     <<"a", "<", "=", "b">>,
     <<">">>,
     <<"a", "+", "=", "1">>,
     <<"a", "-", ">", "b">>,
     <<"a", "-", "b">>,
     <<"=", ">">>,
     <<"*", "%", "&", "|", "^">>}

\* The texts the tests of the lexer and its description scan.
Examples ==
    {<<"a", " ", "&", "&", " ", "b">>,
     <<"a", " ", "!", "=", " ", "b">>,
     <<"!", "a">>,
     <<"4", "2">>,
     <<"0", "x", "2", "A">>,
     <<"0", "X", "f", "f">>,
     <<"0", "b", "1", "0", "1", "0", "1", "0">>,
     <<"0", "o", "5", "2">>,
     <<"0", "b", "1", "0", "1", "0">>,
     <<"0", "o", "7", "7">>,
     <<"1", "_", "0", "0", "0">>,
     <<"3", ".", "1", "4">>,
     <<"1", "e", "5">>,
     <<"1", ".", "2", "3", "e", "-", "4">>,
     <<"\"", "a", "b", "c">>,
     <<"\"", "a", "\\", "u", "{", "4", "1", "}">>,
     <<"x", " ", "s", "q", "l", "\"", "a", "\\">>,
     <<"\"", "a", "b", "c", "\"">>,
     <<"\"", "\\", "n", "\"">>,
     <<"r", "\"", "R", "a", "w", "\\", "n", "\"">>,
     <<"/", "*", " ", "a", " ", "/", "*", " ", "b", " ", "*", "/", " ", "c",
       " ", "*", "/", " ", "l", "e", "t", " ", "x", " ", "=", " ", "1", ";">>,
     <<"l", "e", "t", " ", "c", "a", "f", "é", " ", "=", " ", "1", ";">>}

Inputs ==
    Sources \cup PrefixedLiterals \cup DecimalLiterals \cup I64Texts
            \cup BoundaryLiterals \cup IdentTexts \cup RawTexts
            \cup UnicodeEscapeTexts \cup EscapeTexts \cup CharTexts
            \cup TailTexts \cup CommentedTexts \cup ShebangTexts
            \cup LifetimeTexts
            \cup KeywordTexts
            \cup OperatorTexts
            \cup LoopTexts
            \cup Examples

Init ==
    /\ input \in Inputs
    /\ file = "test"
    /\ source = new(input)
    /\ chars = 1
    /\ pos = 0
    /\ tokens = <<>>
    /\ result = Running

Spec == Init /\ [][Next]_vars

\* lex() runs its loop until it returns: while an iteration can be taken,
\* one is taken.  The scans followed to their end are those of the short
\* texts of LoopTexts, of the keywords and of the lifetimes.
FairInit == Init /\ input \in LoopTexts \cup KeywordTexts \cup LifetimeTexts

FairSpec == FairInit /\ [][Next]_vars /\ WF_vars(Next)

TypeOK ==
    /\ chars \in 1..(Len(source) + 1)
    /\ result.status \in {"running", "ok", "err"}

(***************************************************************************)
(* Properties                                                              *)
(***************************************************************************)
\* The token kinds of a returned sequence.
Kinds(toks) == [i \in 1..Len(toks) |-> toks[i][1].kind]

\* The token pushed by a step of the main loop.
Pushed == tokens'[Len(tokens')]

PushedToken == result'.status = "running" /\ Len(tokens') = Len(tokens) + 1

\* C1: a successful scan returns a sequence whose last element is Eof, and
\* Eof occurs nowhere before the last position, whatever the input (empty,
\* only whitespace, only comments, only a shebang line, or any other).
C1_EofLastExactlyOnce ==
    result.status = "ok" =>
        LET t == result.tokens
        IN  /\ Len(t) >= 1
            /\ t[Len(t)][1] = TokenEof
            /\ \A i \in 1..(Len(t) - 1) : t[i][1] # TokenEof

\* A scan of a shebang line alone has returned.
C1_Witness ==
    /\ result.status = "ok"
    /\ input = <<"#", "!", "e">>
    /\ source = <<>>

\* C2: the span of every token pushed is the half-open byte range of the
\* text consumed for it: it starts at the offset of the token's first
\* character and ends at the offset right after its last character (for a
\* string literal, right after the closing double quote).
C2_SpanIsConsumedText ==
    [][PushedToken =>
         /\ Pushed[2].start = ByteOff(source, chars)
         /\ Pushed[2].end = ByteOff(source, chars')]_vars

\* C3: in a returned sequence every span has end >= start, and the starts
\* of consecutive tokens never decrease.
C3_SpansOrdered ==
    result.status = "ok" =>
        LET t == result.tokens
        IN  /\ \A i \in 1..Len(t) : t[i][2].end >= t[i][2].start
            /\ \A i \in 1..(Len(t) - 1) : t[i + 1][2].start >= t[i][2].start

\* A returned sequence of at least three tokens, one of them a string.
C3_Witness ==
    /\ result.status = "ok"
    /\ Len(result.tokens) >= 3
    /\ \E i \in 1..Len(result.tokens) : result.tokens[i][1].kind = "Str"

\* C4: two adjacent '&' outside literals and comments are rejected: when
\* the main loop is at a '&' that another '&' follows, the scan fails.
C4_DoubleAmpRejected ==
    [][(AtChar /\ ch = "&" /\ peek(source, chars + 1) = "&")
         => result'.status = "err"]_vars

\* C5: at a '!' the main loop pushes one Neq of two bytes when '=' follows,
\* and otherwise (end of input included) fails with the error that names
\* the spelling 'not', its span the one byte of the '!'; `a != b` yields
\* Ident, Neq, Ident, Eof.
C5_BangOnlyInNeq ==
    /\ [][(AtChar /\ ch = "!") =>
            IF peek(source, chars + 1) = "="
            THEN /\ PushedToken
                 /\ Pushed = <<Tok("Neq"), span(start, start + 2, file)>>
                 /\ chars' = chars + 2
            ELSE /\ result'.status = "err"
                 /\ result'.msg
                      = "unexpected '!'; logical NOT is written as 'not'"
                 /\ result'.span = span(start, start + 1, file)]_vars
    /\ []((input = <<"a", " ", "!", "=", " ", "b">>
             /\ result.status # "running")
           => /\ result.status = "ok"
              /\ Kinds(result.tokens) = <<"Ident", "Neq", "Ident", "Eof">>)

\* A '!' at the end of the input has been rejected.
C5_Witness ==
    /\ result.status = "err"
    /\ chars = Len(source)
    /\ source[chars] = "!"
    /\ result.span = span(ByteOff(source, chars),
                          ByteOff(source, chars) + 1, file)

(***************************************************************************)
(* Integer literals as the description reads them: the base a text         *)
(* announces, its digits, and the number its digit run denotes.            *)
(***************************************************************************)
LiteralBase(s) ==
    IF Len(s) >= 2 /\ s[1] = "0"
    THEN CASE s[2] \in {"x", "X"} -> 16
           [] s[2] \in {"b", "B"} -> 2
           [] s[2] \in {"o", "O"} -> 8
           [] OTHER -> 10
    ELSE 10

DigitValue(c) ==
    CASE c = "0" -> 0 [] c = "1" -> 1 [] c = "2" -> 2 [] c = "3" -> 3
      [] c = "4" -> 4 [] c = "5" -> 5 [] c = "6" -> 6 [] c = "7" -> 7
      [] c = "8" -> 8 [] c = "9" -> 9
      [] c = "a" -> 10 [] c = "A" -> 10 [] c = "b" -> 11 [] c = "B" -> 11
      [] c = "c" -> 12 [] c = "C" -> 12 [] c = "d" -> 13 [] c = "D" -> 13
      [] c = "e" -> 14 [] c = "E" -> 14 [] c = "f" -> 15 [] c = "F" -> 15
      [] OTHER -> 99

DigitsOfBase(b) ==
    {c \in AsciiDigits \cup AsciiLower \cup AsciiUpper : DigitValue(c) < b}

\* The text after the prefix, if there is one.
AfterPrefix(s) ==
    IF LiteralBase(s) = 10 THEN s ELSE SubSeq(s, 3, Len(s))

NotUnderscore(c) == c # "_"

\* The digits of an integer literal, underscores deleted.
DigitRun(s) == SelectSeq(AfterPrefix(s), NotUnderscore)

\* The whole text is one integer literal: digits and underscores after a
\* first digit, or a prefix and a run of digits of its base and
\* underscores with at least one digit.
IsIntegerLiteral(s) ==
    /\ s # <<>>
    /\ s[1] \in AsciiDigits
    /\ \A i \in 1..Len(AfterPrefix(s)) :
          AfterPrefix(s)[i] \in DigitsOfBase(LiteralBase(s)) \cup {"_"}
    /\ DigitRun(s) # <<>>

RECURSIVE StripZeros(_)
StripZeros(s) ==
    IF s # <<>> /\ Head(s) = "0" THEN StripZeros(Tail(s)) ELSE s

\* The canonical decimal text of a run of decimal digits.
Canonical(run) ==
    IF StripZeros(run) = <<>> THEN <<"0">> ELSE StripZeros(run)

\* a <= b for two runs of decimal digits of one length.
DecimalLeq(a, b) ==
    \/ a = b
    \/ \E i \in 1..Len(a) :
          /\ SubSeq(a, 1, i - 1) = SubSeq(b, 1, i - 1)
          /\ DigitValue(a[i]) < DigitValue(b[i])

MaxDecimalText ==
    <<"9", "2", "2", "3", "3", "7", "2", "0", "3", "6", "8", "5", "4", "7",
      "7", "5", "8", "0", "7">>

\* The bits of a digit of base 2, 8 or 16, most significant first.
DigitBits(c, b) ==
    LET d == DigitValue(c)
    IN  CASE b = 2  -> <<d>>
          [] b = 8  -> <<d \div 4, (d \div 2) % 2, d % 2>>
          [] b = 16 -> <<d \div 8, (d \div 4) % 2, (d \div 2) % 2, d % 2>>

RECURSIVE RunBits(_, _)
RunBits(run, b) ==
    IF run = <<>> THEN <<>>
    ELSE DigitBits(Head(run), b) \o RunBits(Tail(run), b)

RECURSIVE StripZeroBits(_)
StripZeroBits(s) ==
    IF s # <<>> /\ Head(s) = 0 THEN StripZeroBits(Tail(s)) ELSE s

RECURSIVE BitsValue(_)
BitsValue(bits) ==
    IF bits = <<>> THEN 0
    ELSE 2 * BitsValue(SubSeq(bits, 1, Len(bits) - 1)) + bits[Len(bits)]

\* The four limbs of at most 64 bits.
BitsLimbs(bits) ==
    LET padded == [i \in 1..(64 - Len(bits)) |-> 0] \o bits
    IN  [k \in 1..4 |-> BitsValue(SubSeq(padded, 16 * k - 15, 16 * k))]

\* The digit run of the integer literal s denotes at most i64::MAX.
FitsI64(s) ==
    IF LiteralBase(s) = 10
    THEN \/ Len(Canonical(DigitRun(s))) < Len(MaxDecimalText)
         \/ /\ Len(Canonical(DigitRun(s))) = Len(MaxDecimalText)
            /\ DecimalLeq(Canonical(DigitRun(s)), MaxDecimalText)
    ELSE Len(StripZeroBits(RunBits(DigitRun(s), LiteralBase(s)))) <= 63

\* The i64 v is the number the digit run of the integer literal s denotes.
Denotes(v, s) ==
    /\ ~v.neg
    /\ IF LiteralBase(s) = 10
       THEN to_string(v) = Canonical(DigitRun(s))
       ELSE v.mag
              = BitsLimbs(StripZeroBits(RunBits(DigitRun(s), LiteralBase(s))))

\* The positional value of a run of digits, for runs short enough for the
\* value to stay below 2^31.
ExactDigits == 6

RECURSIVE PositionalValue(_, _)
PositionalValue(run, b) ==
    IF run = <<>> THEN 0
    ELSE PositionalValue(SubSeq(run, 1, Len(run) - 1), b) * b
           + DigitValue(run[Len(run)])

\* C6: at a `0` that a base letter and a run with at least one digit of the
\* base follow, the number scanner returns an Int token that ends right
\* after the run of digits and underscores, whatever follows the run; no
\* fraction and no exponent is attempted, so the step gives no Float and no
\* float or exponent error (the one failure left is a value too large).
C6_PrefixedLiteralEndsAfterRun ==
    [][(/\ AtChar
        /\ ch = "0"
        /\ LiteralBase(SubSeq(source, chars, Len(source))) # 10
        /\ \E j \in (chars + 2)..(RunEnd(source, chars + 2,
                 DigitsOfBase(LiteralBase(SubSeq(source, chars, Len(source))))
                   \cup {"_"}) - 1) : source[j] # "_")
       => \/ /\ PushedToken
             /\ Pushed[1].kind = "Int"
             /\ chars' = RunEnd(source, chars + 2,
                  DigitsOfBase(LiteralBase(SubSeq(source, chars, Len(source))))
                    \cup {"_"})
             /\ Pushed[2].end = ByteOff(source, chars')
          \/ /\ result'.status = "err"
             /\ result'.msg = "integer literal too large"]_vars

\* C7 as stated: for every i64 v, the scan of the decimal text of v succeeds
\* and its integer token has the value v.
C7_DecimalRoundTrip ==
    (result.status # "running" /\ input \in I64Texts) =>
        \A v \in I64Samples :
            input = I64Text[v] =>
                /\ result.status = "ok"
                /\ result.tokens[1][1] = TokenInt(v)

\* C7: for every i64 v >= 0, the scan of the decimal text of v succeeds and
\* yields one integer token, of the value v, over the whole text.  The text
\* of a negative v scans as Minus and the integer token of |v|; the text of
\* i64::MIN fails, |i64::MIN| being too large.
C7_DecimalRoundTripNonNegative ==
    (result.status # "running" /\ input \in I64Texts) =>
        \A v \in I64Samples :
            input = I64Text[v] =>
                IF ~v.neg
                THEN /\ result.status = "ok"
                     /\ Kinds(result.tokens) = <<"Int", "Eof">>
                     /\ result.tokens[1]
                          = <<TokenInt(v), span(0, Len(input), file)>>
                ELSE IF v = I64_MIN
                THEN /\ result.status = "err"
                     /\ result.msg = "integer literal too large"
                ELSE /\ result.status = "ok"
                     /\ Kinds(result.tokens) = <<"Minus", "Int", "Eof">>
                     /\ result.tokens[2][1]
                          = TokenInt([neg |-> FALSE, mag |-> v.mag])

\* The decimal text of i64::MAX has been scanned to its value.
C7_Witness ==
    /\ result.status = "ok"
    /\ input = to_string(I64_MAX)
    /\ result.tokens[1][1] = TokenInt(I64_MAX)

\* C8: the scan of an integer literal (decimal, or prefixed in base 16, 2
\* or 8) whose digit run, underscores deleted, denotes more than i64::MAX
\* fails with `integer literal too large`; a digit run that denotes a value
\* from 0 to i64::MAX gives one Int token of exactly that value, never a
\* Float.
C8_TooLargeOrExact ==
    (result.status # "running" /\ IsIntegerLiteral(input)) =>
        IF FitsI64(input)
        THEN /\ result.status = "ok"
             /\ Kinds(result.tokens) = <<"Int", "Eof">>
             /\ Denotes(result.tokens[1][1].val, input)
        ELSE /\ result.status = "err"
             /\ result.msg = "integer literal too large"

\* 2^63 in base 16 has been rejected.
C8_Witness ==
    /\ result.status = "err"
    /\ result.msg = "integer literal too large"
    /\ input = <<"0", "x", "8">> \o Rep("0", 15)

\* C9: a prefixed literal yields Int(v), v the positional value of its
\* digits in base 16, 2 or 8, so that `0x2A`, `0b101010`, `0o52` and `42`
\* all yield Int(42); a prefix that no digit of its base follows
\* (underscores do not count) fails with `invalid integer literal`.
C9_BaseEquivalence ==
    result.status # "running" =>
        /\ (/\ LiteralBase(input) # 10
            /\ IsIntegerLiteral(input)
            /\ Len(DigitRun(input)) <= ExactDigits)
           => /\ result.status = "ok"
              /\ Kinds(result.tokens) = <<"Int", "Eof">>
              /\ result.tokens[1][1]
                   = TokenInt(I64(PositionalValue(DigitRun(input),
                                                  LiteralBase(input))))
        /\ input \in {<<"0", "x", "2", "A">>, <<"0", "o", "5", "2">>,
                      <<"0", "b", "1", "0", "1", "0", "1", "0">>,
                      <<"4", "2">>}
           => /\ result.status = "ok"
              /\ result.tokens[1][1] = TokenInt(I64(42))
        /\ (/\ LiteralBase(input) # 10
            /\ \A j \in 3..(RunEnd(input, 3,
                     DigitsOfBase(LiteralBase(input)) \cup {"_"}) - 1) :
                  input[j] = "_")
           => /\ result.status = "err"
              /\ result.msg = "invalid integer literal"

\* `0b101010` has been scanned to Int(42).
C9_Witness ==
    /\ result.status = "ok"
    /\ input = <<"0", "b", "1", "0", "1", "0", "1", "0">>
    /\ result.tokens[1][1] = TokenInt(I64(42))

\* C10: when the scan has accepted a numeric literal with underscores in
\* it, its token is the token the number scanner gives for the same literal
\* with the underscores deleted; `1_000` yields Int(1000).
C10_UnderscoreTransparency ==
    /\ (/\ tokens # <<>>
        /\ tokens[1][1].kind \in {"Int", "Float"}
        /\ tokens[1][2].start = 0
        /\ \E j \in 1..tokens[1][2].end : source[j] = "_")
       => LET r == read_number(
                     SelectSeq(SubSeq(source, 1, tokens[1][2].end),
                               NotUnderscore), 0, file)
          IN  r.ok /\ r.tok = tokens[1][1]
    /\ (input = <<"1", "_", "0", "0", "0">> /\ result.status # "running")
       => /\ result.status = "ok"
          /\ result.tokens[1][1] = TokenInt(I64(1000))

\* A float literal with an underscore before its dot has been accepted.
C10_Witness ==
    /\ source = <<"1", "_", ".", "0">>
    /\ tokens # <<>>
    /\ tokens[1][1].kind = "Float"

\* The name a token carries: an identifier, a lifetime or a prefix.
TokenName(tok) ==
    IF tok.kind \in {"Ident", "Lifetime"} THEN tok.s ELSE tok.prefix

\* A run that starts with a letter or an underscore and goes on through
\* alphanumerics and underscores.
IsIdentifierText(s) ==
    /\ s # <<>>
    /\ is_alphabetic(s[1]) \/ s[1] = "_"
    /\ \A i \in 2..Len(s) : is_alphanumeric(s[i]) \/ s[i] = "_"

\* C11: the name of every Ident, Lifetime, PrefixedStr and PrefixedChar
\* pushed starts with a letter or an underscore and goes on through
\* alphanumerics and underscores; and at a non-ASCII character that is no
\* letter the main loop fails with the unexpected-character error.
C11_IdentifierCharacters ==
    [][/\ (/\ PushedToken
           /\ Pushed[1].kind \in {"Ident", "Lifetime", "PrefixedStr",
                                  "PrefixedChar"})
          => IsIdentifierText(TokenName(Pushed[1]))
       /\ (AtChar /\ ch \in NonAsciiSymbols)
          => /\ result'.status = "err"
             /\ result'.msg = "unexpected character: '" \o ch \o "'"]_vars

\* The index of the first double quote of src at or after k; 0 if none.
NextQuote(src, k) ==
    IF \E j \in k..Len(src) : src[j] = "\""
    THEN CHOOSE j \in k..Len(src) :
             src[j] = "\"" /\ \A i \in k..(j - 1) : src[i] # "\""
    ELSE 0

IdentifierCharacters ==
    AsciiLower \cup AsciiUpper \cup NonAsciiLetters \cup AsciiDigits \cup {"_"}

\* The index after the identifier run that starts at k.
IdentifierEnd(src, k) == RunEnd(src, k, IdentifierCharacters)

\* C12: at an identifier run that a double quote follows and that another
\* double quote closes, the main loop pushes one PrefixedStr whose prefix
\* is the text of the run and whose content is the text between the
\* opening quote and the next double quote, character for character: a
\* backslash and the character after it stay two characters, and a
\* backslash before a double quote does not keep it from closing.
C12_PrefixFidelity ==
    [][(/\ AtChar
        /\ is_alphabetic(ch) \/ ch = "_"
        /\ peek(source, IdentifierEnd(source, chars)) = "\""
        /\ NextQuote(source, IdentifierEnd(source, chars) + 1) # 0)
       => /\ PushedToken
          /\ Pushed[1]
               = TokenPrefixedStr(
                   SubSeq(source, chars, IdentifierEnd(source, chars) - 1),
                   SubSeq(source, IdentifierEnd(source, chars) + 1,
                          NextQuote(source,
                                    IdentifierEnd(source, chars) + 1) - 1))
          /\ chars' = NextQuote(source, IdentifierEnd(source, chars) + 1) + 1
      ]_vars

\* `r"Raw\n"` has been scanned to a content that ends in a backslash and n.
C12_Witness ==
    /\ result.status = "ok"
    /\ result.tokens[1][1]
         = TokenPrefixedStr(<<"r">>, <<"R", "a", "w", "\\", "n">>)

\* What follows `\u` in a text of UnicodeEscapeTexts, up to the closing
\* quote.
EscapeBody(s) == SubSeq(s, IF s[1] = "r" THEN 5 ELSE 4, Len(s) - 1)

\* The digits between the braces of a body.
Braced(b) == SubSeq(b, 2, Len(b) - 1)

LegalScalar(cp) == cp <= 1114111 /\ ~(cp >= 55296 /\ cp <= 57343)

\* A body decodes when it is `{`, 1 to 6 hex digits and `}`, and the code
\* point is a scalar value.
Decodes(b) ==
    /\ Len(b) >= 3 /\ Len(b) <= 8
    /\ b[1] = "{"
    /\ b[Len(b)] = "}"
    /\ \A i \in 1..Len(Braced(b)) : DigitValue(Braced(b)[i]) < 16
    /\ LegalScalar(PositionalValue(Braced(b), 16))

\* The token of a text of UnicodeEscapeTexts whose escape gives c.
EscapeToken(s, c) ==
    CASE s[1] = "\"" -> TokenStr(<<c>>)
      [] s[1] = "'" -> TokenChar(c)
      [] s[1] = "r" -> TokenPrefixedChar(<<"r">>, c)

\* C13: a Unicode escape in a plain string, a character literal or a
\* prefixed character literal gives the character of its code point
\* exactly when it has 1 to 6 hex digits between braces and the code point
\* is a scalar value (`\u{41}` is A, `\u{e9}` is e-acute); with no digit,
\* more than 6 digits, a character that is no hex digit, no opening brace,
\* a surrogate or a code point above 10FFFF the scan fails.
C13_UnicodeEscape ==
    (result.status # "running" /\ input \in UnicodeEscapeTexts) =>
        /\ IF Decodes(EscapeBody(input))
           THEN /\ result.status = "ok"
                /\ Len(result.tokens) = 2
                /\ result.tokens[1][1]
                     = EscapeToken(input,
                         from_u32(PositionalValue(
                                    Braced(EscapeBody(input)), 16)).ch)
           ELSE result.status = "err"
        /\ EscapeBody(input) = <<"{", "4", "1", "}">>
           => result.tokens[1][1] = EscapeToken(input, "A")
        /\ EscapeBody(input) = <<"{", "e", "9", "}">>
           => result.tokens[1][1] = EscapeToken(input, "é")

\* The character literal of the surrogate D800 has been rejected.
C13_Witness ==
    /\ result.status = "err"
    /\ result.msg = "invalid unicode codepoint"
    /\ input = <<"'", "\\", "u", "{", "D", "8", "0", "0", "}", "'">>

\* The six escapes of one character and what each stands for.
SimpleEscapes == {"n", "r", "t", "\\", "\"", "'"}

Decoded(c) ==
    CASE c = "n" -> "\n" [] c = "r" -> "\r" [] c = "t" -> "\t"
      [] c = "\\" -> "\\" [] c = "\"" -> "\"" [] c = "'" -> "'"

\* What a literal holding the escape of c must give: tok is the token when
\* c is one of the six.
EscapeOutcome(c, tok) ==
    IF c \in SimpleEscapes
    THEN /\ result.status = "ok"
         /\ Len(result.tokens) = 2
         /\ result.tokens[1][1] = tok
    ELSE /\ result.status = "err"
         /\ result.msg = "unknown escape sequence \\" \o c

\* C14: in a plain string, a character literal and a prefixed character
\* literal, a backslash and n, r, t, backslash, double quote or single
\* quote give one character (so an escaped double quote does not close a
\* plain string); a backslash and another character (other than u) fail
\* with `unknown escape sequence`, and a backslash at the end of the input
\* fails with `unterminated escape sequence`.
C14_SimpleEscapes ==
    (result.status # "running" /\ input \in EscapeTexts) =>
        /\ \A c \in EscapeCharacters :
              /\ \A pre \in Affixes, post \in Affixes :
                    input = StringWith(pre, c, post)
                    => EscapeOutcome(c,
                         TokenStr(pre \o (IF c \in SimpleEscapes
                                          THEN <<Decoded(c)>> ELSE <<>>)
                                      \o post))
              /\ input = <<"'", "\\", c, "'">>
                 => EscapeOutcome(c,
                      TokenChar(IF c \in SimpleEscapes
                                THEN Decoded(c) ELSE ""))
              /\ input = <<"r", "'", "\\", c, "'">>
                 => EscapeOutcome(c,
                      TokenPrefixedChar(<<"r">>, IF c \in SimpleEscapes
                                                 THEN Decoded(c) ELSE ""))
        /\ input \in OpenEscapes
           => /\ result.status = "err"
              /\ result.msg = "unterminated escape sequence"

\* A plain string that holds one escaped double quote has been scanned.
C14_Witness ==
    /\ result.status = "ok"
    /\ input = <<"\"", "\\", "\"", "\"">>
    /\ result.tokens[1][1] = TokenStr(<<"\"">>)

\* The content unit at index k: a character that is no backslash, or a
\* backslash and one of the six characters; `after` is the index behind it.
UnitAt(src, k) ==
    IF src[k] # "\\"
    THEN [ok |-> TRUE, ch |-> src[k], after |-> k + 1]
    ELSE IF peek(src, k + 1) \in SimpleEscapes
    THEN [ok |-> TRUE, ch |-> Decoded(peek(src, k + 1)), after |-> k + 2]
    ELSE [ok |-> FALSE, ch |-> "", after |-> k]

FailsWith(msg) == result'.status = "err" /\ result'.msg = msg

\* What the step at a character literal does; k is the index after the
\* opening quote and tok(c) the token of the character c.
CharLiteralStep(k, tok(_)) ==
    IF peek(source, k) = "" THEN TRUE
    ELSE IF peek(source, k) = "'"
    THEN FailsWith("empty character literal")
    ELSE UnitAt(source, k).ok =>
            IF peek(source, UnitAt(source, k).after) = "'"
            THEN /\ PushedToken
                 /\ Pushed[1] = tok(UnitAt(source, k).ch)
                 /\ chars' = UnitAt(source, k).after + 1
            ELSE IF peek(source, UnitAt(source, k).after) # ""
            THEN FailsWith(
                   "character literal must contain exactly one character")
            ELSE result'.status = "err"

\* The quote at the scanner opens a plain character literal: the text is
\* no lifetime.
AtPlainCharLiteral ==
    /\ AtChar
    /\ ch = "'"
    /\ ~(/\ is_alphabetic(peek(source, chars + 1))
            \/ peek(source, chars + 1) = "_"
         /\ peek(source, chars + 2) # "'")

\* The scanner is at an identifier run that a single quote follows.
AtPrefixedCharLiteral ==
    /\ AtChar
    /\ is_alphabetic(ch) \/ ch = "_"
    /\ peek(source, IdentifierEnd(source, chars)) = "'"

PrefixedCharOf(c) ==
    TokenPrefixedChar(SubSeq(source, chars, IdentifierEnd(source, chars) - 1),
                      c)

\* C15: a character literal, plain or prefixed, holds one content unit and
\* then its closing quote: with the closing quote right after the opening
\* one the step fails with `empty character literal`, with another
\* character after the first unit it fails with `character literal must
\* contain exactly one character`, and with the closing quote after the
\* unit it pushes the Char or PrefixedChar of the unit; a prefixed literal
\* that ends with its opening quote fails with `unterminated character
\* literal`.  A step that fails pushes no token.
C15_OneContentUnit ==
    [][/\ AtPlainCharLiteral => CharLiteralStep(chars + 1, TokenChar)
       /\ AtPrefixedCharLiteral
          => /\ CharLiteralStep(IdentifierEnd(source, chars) + 1,
                                PrefixedCharOf)
             /\ IdentifierEnd(source, chars) = Len(source)
                => FailsWith("unterminated character literal")
       /\ result'.status = "err" => result'.tokens = <<>>]_vars

\* `r'aa'` has been rejected.
C15_Witness ==
    /\ result.status = "err"
    /\ result.msg = "character literal must contain exactly one character"
    /\ input = <<"r", "'", "a", "a", "'">>

\* The result of scanning a text of TailTexts on its own: each token with
\* the two offsets of its span.
TailResult(t) ==
    CASE t = <<>> -> <<<<TokenEof, 0, 0>>>>
      [] t = <<"e">> -> <<<<TokenIdent(<<"e">>), 0, 1>>, <<TokenEof, 1, 1>>>>
      [] t = <<"0", "=">> ->
           <<<<TokenInt(I64(0)), 0, 1>>, <<Tok("Eq"), 1, 2>>,
             <<TokenEof, 2, 2>>>>
      [] t = <<"é">> -> <<<<TokenIdent(<<"é">>), 0, 2>>, <<TokenEof, 2, 2>>>>
      [] t = <<"l", "e", "t", " ", "x", " ", "=", " ", "1", ";">> ->
           <<<<Tok("Let"), 0, 3>>, <<TokenIdent(<<"x">>), 4, 5>>,
             <<Tok("Eq"), 6, 7>>, <<TokenInt(I64(1)), 8, 9>>,
             <<Tok("Semicolon"), 9, 10>>, <<TokenEof, 10, 10>>>>

\* The tokens of a sequence, without their spans.
Tokens(toks) == [i \in 1..Len(toks) |-> toks[i][1]]

\* The text s ends with t.
EndsWith(s, t) ==
    /\ Len(s) >= Len(t)
    /\ SubSeq(s, Len(s) - Len(t) + 1, Len(s)) = t

C17_UnterminatedCommentSpan ==
    [][(/\ AtChar
        /\ ch = "/"
        /\ peek(source, chars + 1) = "*"
        /\ result'.status = "err")
       => /\ result'.msg = "unterminated block comment"
          /\ result'.span = span(ByteOff(source, chars), ByteLen(source),
                                 file)]_vars

\* The index of the double quote that closes the plain string whose
\* content starts at k, a backslash and the character after it counted as
\* one unit; 0 when the input ends first.
RECURSIVE PlainClose(_, _)
PlainClose(src, k) ==
    IF k > Len(src) THEN 0
    ELSE IF src[k] = "\"" THEN k
    ELSE IF src[k] = "\\" THEN PlainClose(src, k + 2)
    ELSE PlainClose(src, k + 1)

\* The `u` at index k starts `u{`, 1 to 6 hex digits, `}` of a scalar value.
ValidUnicodeAt(src, k) ==
    /\ peek(src, k + 1) = "{"
    /\ peek(src, RunEnd(src, k + 2, DigitsOfBase(16))) = "}"
    /\ RunEnd(src, k + 2, DigitsOfBase(16)) - (k + 2) \in 1..6
    /\ LegalScalar(PositionalValue(
                     SubSeq(src, k + 2,
                            RunEnd(src, k + 2, DigitsOfBase(16)) - 1), 16))

\* Every backslash from index k on starts a well-formed escape.
RECURSIVE EscapesWellFormed(_, _)
EscapesWellFormed(src, k) ==
    IF k > Len(src) THEN TRUE
    ELSE IF src[k] # "\\" THEN EscapesWellFormed(src, k + 1)
    ELSE IF peek(src, k + 1) \in SimpleEscapes
    THEN EscapesWellFormed(src, k + 2)
    ELSE /\ peek(src, k + 1) = "u"
         /\ ValidUnicodeAt(src, k + 1)
         /\ EscapesWellFormed(src, k + 2)

\* The step at a string whose opening quote is at index q fails as
\* unterminated, from the quote to the end of the source.
UnterminatedString(q) ==
    /\ FailsWith("unterminated string literal")
    /\ result'.span = span(ByteOff(source, q), ByteLen(source), file)

AtPrefixedString ==
    /\ AtChar
    /\ is_alphabetic(ch) \/ ch = "_"
    /\ peek(source, IdentifierEnd(source, chars)) = "\""

\* C18 as stated: the step at a plain or prefixed string that no double
\* quote closes before the end of the input fails with `unterminated
\* string literal`, the span from the opening quote to the source length.
C18_UnterminatedString ==
    [][/\ (AtChar /\ ch = "\"" /\ PlainClose(source, chars + 1) = 0)
          => UnterminatedString(chars)
       /\ (/\ AtPrefixedString
           /\ NextQuote(source, IdentifierEnd(source, chars) + 1) = 0)
          => UnterminatedString(IdentifierEnd(source, chars))]_vars

\* C18: the same, for a plain string all of whose escapes are well formed
\* (an escape that is malformed, or cut by the end of the input, fails
\* first with its own error) and for every prefixed string.
C18_UnterminatedStringWellFormed ==
    [][/\ (/\ AtChar
           /\ ch = "\""
           /\ PlainClose(source, chars + 1) = 0
           /\ EscapesWellFormed(source, chars + 1))
          => UnterminatedString(chars)
       /\ (/\ AtPrefixedString
           /\ NextQuote(source, IdentifierEnd(source, chars) + 1) = 0)
          => UnterminatedString(IdentifierEnd(source, chars))]_vars

\* `"abc` has been rejected, with the span of the whole text.
C18_Witness ==
    /\ result.status = "err"
    /\ result.msg = "unterminated string literal"
    /\ input = <<"\"", "a", "b", "c">>
    /\ result.span = span(0, 4, file)

\* The tokens of a sequence, each with the two offsets of its span.
WithOffsets(toks) ==
    [i \in 1..Len(toks) |->
        <<toks[i][1], toks[i][2].start, toks[i][2].end>>]

\* The text s is a shebang line of ShebangLines, its newline and t.
BehindShebang(s, t) ==
    \E l \in ShebangLines : s = l \o <<"\n">> \o t

\* The scan has returned the tokens and offsets of the text t alone.
ReturnsAs(t) ==
    /\ result.status = "ok"
    /\ WithOffsets(result.tokens) = TailResult(t)

\* C19 as stated: the scan of a shebang line followed by a text returns
\* what the scan of the text alone returns, offsets counted from the byte
\* after the newline, whatever the text: so a text that is itself a
\* shebang line gives the single Eof, as it does alone.  A shebang line
\* without newline gives the single Eof at (0,0), and a `#` met by the
\* main loop is an unexpected character.
C19_ShebangStripping ==
    /\ [](result.status # "running" =>
            /\ \A t \in TailTexts :
                  (input = t \/ BehindShebang(input, t)) => ReturnsAs(t)
            /\ (input \in ShebangLines \/ input = <<"#", "!", "b">>
                  \/ BehindShebang(input, <<"#", "!", "b">>))
               => ReturnsAs(<<>>)
            /\ (input = <<"#", "!", "b", "\n", "e">>
                  \/ BehindShebang(input, <<"#", "!", "b", "\n", "e">>))
               => ReturnsAs(<<"e">>))
    /\ [][(AtChar /\ ch = "#")
            => FailsWith("unexpected character: '#'")]_vars

\* C19: the same for a text that does not begin with `#!`; the line is
\* stripped once, so that a text behind it that begins with `#!` fails at
\* its `#` as an unexpected character.
C19_ShebangStrippedOnce ==
    /\ [](result.status # "running" =>
            /\ \A t \in TailTexts :
                  (input = t \/ BehindShebang(input, t)) => ReturnsAs(t)
            /\ (input \in ShebangLines \/ input = <<"#", "!", "b">>)
               => ReturnsAs(<<>>)
            /\ input = <<"#", "!", "b", "\n", "e">> => ReturnsAs(<<"e">>)
            /\ (\E t \in SecondShebang : BehindShebang(input, t))
               => /\ result.status = "err"
                  /\ result.msg = "unexpected character: '#'"
                  /\ result.span = span(0, 1, file))
    /\ [][(AtChar /\ ch = "#")
            => FailsWith("unexpected character: '#'")]_vars

\* `let x = 1;` behind a shebang line has been scanned.
C19_Witness ==
    /\ result.status = "ok"
    /\ input = <<"#", "!", "/", "b", "i", "n", "\n",
                 "l", "e", "t", " ", "x", " ", "=", " ", "1", ";">>
    /\ Len(result.tokens) = 6

\* C20: at a single quote that a letter or underscore c follows, the step
\* pushes Char(c) when a single quote follows c, and otherwise a Lifetime
\* whose name is the identifier run that starts at c (never a keyword
\* token), its span from the quote to the end of the run; when the
\* character after the quote is no letter or underscore the text is
\* scanned as a character literal; and with the end of the input right
\* after the quote the step fails.
C20_QuoteDisambiguation ==
    [][(AtChar /\ ch = "'") =>
         IF peek(source, chars + 1) = ""
         THEN result'.status = "err"
         ELSE IF is_alphabetic(peek(source, chars + 1))
                 \/ peek(source, chars + 1) = "_"
         THEN /\ peek(source, chars + 2) = "'"
                 => /\ PushedToken
                    /\ Pushed[1] = TokenChar(peek(source, chars + 1))
                    /\ chars' = chars + 3
              /\ peek(source, chars + 2) \notin {"", "'"}
                 => /\ PushedToken
                    /\ Pushed[1]
                         = TokenLifetime(
                             SubSeq(source, chars + 1,
                                    IdentifierEnd(source, chars + 1) - 1))
                    /\ Pushed[2]
                         = span(ByteOff(source, chars),
                                ByteOff(source,
                                        IdentifierEnd(source, chars + 1)),
                                file)
                    /\ chars' = IdentifierEnd(source, chars + 1)
         ELSE /\ CharLiteralStep(chars + 1, TokenChar)
              /\ PushedToken => Pushed[1].kind = "Char"]_vars

\* The keyword table: the spelling of each keyword and its token.
KeywordTable ==
    {<<<<"l", "e", "t">>, Tok("Let")>>,
     <<<<"m", "u", "t">>, Tok("Mut")>>,
     <<<<"f", "u", "n", "c">>, Tok("Func")>>,
     <<<<"i", "f">>, Tok("If")>>,
     <<<<"e", "l", "s", "e">>, Tok("Else")>>,
     <<<<"m", "a", "t", "c", "h">>, Tok("Match")>>,
     <<<<"c", "a", "s", "e">>, Tok("Case")>>,
     <<<<"o", "n">>, Tok("On")>>,
     <<<<"o", "w", "n">>, Tok("Own")>>,
     <<<<"t", "h", "r", "o", "w", "s">>, Tok("Throws")>>,
     <<<<"r", "e", "c", "o", "v", "e", "r">>, Tok("Recover")>>,
     <<<<"r", "e", "t", "u", "r", "n">>, Tok("Return")>>,
     <<<<"i", "m", "p", "o", "r", "t">>, Tok("Import")>>,
     <<<<"e", "x", "p", "o", "r", "t">>, Tok("Export")>>,
     <<<<"f", "r", "o", "m">>, Tok("From")>>,
     <<<<"e", "n", "u", "m">>, Tok("Enum")>>,
     <<<<"c", "l", "a", "s", "s">>, Tok("Class")>>,
     <<<<"w", "i", "t", "h">>, Tok("With")>>,
     <<<<"t", "y", "p", "e">>, Tok("Type")>>,
     <<<<"i", "s">>, Tok("Is")>>,
     <<<<"a", "n", "d">>, Tok("And")>>,
     <<<<"o", "r">>, Tok("Or")>>,
     <<<<"n", "o", "t">>, Tok("Not")>>,
     <<<<"t", "r", "u", "e">>, TokenBool(TRUE)>>,
     <<<<"f", "a", "l", "s", "e">>, TokenBool(FALSE)>>}

\* The token of a run by the keyword table.
Classified(run) ==
    IF \E row \in KeywordTable : row[1] = run
    THEN (CHOOSE row \in KeywordTable : row[1] = run)[2]
    ELSE TokenIdent(run)

\* The main loop is at the first character of an identifier run.
AtIdentifierRun == AtChar /\ (is_alphabetic(ch) \/ ch = "_")

\* The identifier run at the cursor.
IdentifierRun == SubSeq(source, chars, IdentifierEnd(source, chars) - 1)

\* C21: the step at an identifier run goes by the character after the
\* run alone: before a double quote it pushes a PrefixedStr whose prefix
\* is the run, or fails; before a single quote it pushes a PrefixedChar
\* whose prefix is the run, or fails; before anything else it pushes the
\* token the keyword table gives the run (the keyword token, the Bool of
\* true and false, for every other run the Ident of its exact text) with
\* the span of the bytes of the run, and goes on right after the run.
C21_IdentifierClassification ==
    [][AtIdentifierRun =>
         CASE peek(source, IdentifierEnd(source, chars)) = "\"" ->
                \/ result'.status = "err"
                \/ /\ PushedToken
                   /\ Pushed[1].kind = "PrefixedStr"
                   /\ Pushed[1].prefix = IdentifierRun
           [] peek(source, IdentifierEnd(source, chars)) = "'" ->
                \/ result'.status = "err"
                \/ /\ PushedToken
                   /\ Pushed[1].kind = "PrefixedChar"
                   /\ Pushed[1].prefix = IdentifierRun
           [] OTHER ->
                /\ PushedToken
                /\ Pushed = <<Classified(IdentifierRun),
                              span(start, start + ByteLen(IdentifierRun),
                                   file)>>
                /\ chars' = IdentifierEnd(source, chars)
      ]_vars

\* The operator table: the spelling of each operator and its token.
OperatorTable ==
    {<<<<"<", "<", "=">>, "ShlEq">>, <<<<">", ">", "=">>, "ShrEq">>,
     <<<<"<", "<">>, "Shl">>, <<<<">", ">">>, "Shr">>,
     <<<<"<", "=">>, "Le">>, <<<<">", "=">>, "Ge">>,
     <<<<"=", "=">>, "EqEq">>, <<<<"=", ">">>, "FatArrow">>,
     <<<<"-", ">">>, "Arrow">>, <<<<"!", "=">>, "Neq">>,
     <<<<"+", "=">>, "PlusEq">>, <<<<"-", "=">>, "MinusEq">>,
     <<<<"*", "=">>, "StarEq">>, <<<<"/", "=">>, "SlashEq">>,
     <<<<"%", "=">>, "PercentEq">>, <<<<"&", "=">>, "AmpEq">>,
     <<<<"|", "=">>, "PipeEq">>, <<<<"^", "=">>, "CaretEq">>,
     <<<<"=">>, "Eq">>, <<<<"<">>, "Lt">>, <<<<">">>, "Gt">>,
     <<<<"+">>, "Plus">>, <<<<"-">>, "Minus">>, <<<<"*">>, "Star">>,
     <<<<"/">>, "Slash">>, <<<<"%">>, "Percent">>, <<<<"&">>, "Amp">>,
     <<<<"|">>, "Pipe">>, <<<<"^">>, "Caret">>}

\* The entries of the operator table that the text at index k begins with.
OperatorMatches(src, k) ==
    {row \in OperatorTable :
        /\ k + Len(row[1]) - 1 <= Len(src)
        /\ SubSeq(src, k, k + Len(row[1]) - 1) = row[1]}

\* The longest of them.
LongestOperator(src, k) ==
    CHOOSE row \in OperatorMatches(src, k) :
        \A other \in OperatorMatches(src, k) : Len(other[1]) <= Len(row[1])

\* The main loop is at an operator and not at the start of a comment.
AtOperator ==
    /\ AtChar
    /\ OperatorMatches(source, chars) # {}
    /\ ~(ch = "/" /\ peek(source, chars + 1) \in {"/", "*"})

\* C22: the step at an operator pushes the one token of the longest entry
\* of the operator table the text at the cursor begins with (ShlEq and
\* ShrEq for `<<=` and `>>=`, the two-character tokens for `<<`, `>>`,
\* `<=`, `>=`, `==`, `=>`, `->`, `!=` and the compound assignments, a
\* one-character token only where no longer entry matches), with a span
\* of as many bytes as the entry has characters, and goes on after it.
C22_LongestOperator ==
    [][AtOperator =>
         /\ PushedToken
         /\ Pushed = <<Tok(LongestOperator(source, chars)[2]),
                       span(start,
                            start + Len(LongestOperator(source, chars)[1]),
                            file)>>
         /\ chars' = chars + Len(LongestOperator(source, chars)[1])
      ]_vars

\* The scan of `<<=` has returned the one ShlEq of three bytes and Eof.
C22_Witness ==
    /\ result.status = "ok"
    /\ input = <<"<", "<", "=">>
    /\ Len(result.tokens) = 2
    /\ result.tokens[1] = <<Tok("ShlEq"), span(0, 3, file)>>

\* The main loop is at the first digit of a literal without a base prefix.
AtDecimalLiteral ==
    /\ AtChar
    /\ ch \in AsciiDigits
    /\ LiteralBase(SubSeq(source, chars, Len(source))) = 10

\* The index after the integer digit run (digits and underscores).
IntegerPartEnd == RunEnd(source, chars, AsciiDigits \cup {"_"})

\* A `.` and right after it a decimal digit follow the integer digit run.
FractionFollows ==
    /\ peek(source, IntegerPartEnd) = "."
    /\ peek(source, IntegerPartEnd + 1) \in AsciiDigits

\* The index after the fractional part, if there is one.
FractionalPartEnd ==
    IF FractionFollows
    THEN RunEnd(source, IntegerPartEnd + 2, AsciiDigits \cup {"_"})
    ELSE IntegerPartEnd

\* An exponent marker follows the integer or the fractional part.
ExponentFollows == peek(source, FractionalPartEnd) \in {"e", "E"}

\* The index after the exponent marker and its optional sign.
AfterExponentSign ==
    IF peek(source, FractionalPartEnd + 1) \in {"+", "-"}
    THEN FractionalPartEnd + 2
    ELSE FractionalPartEnd + 1

\* C23: at a decimal literal, a token pushed is a Float exactly when a `.`
\* with a decimal digit right after it, or an exponent marker, follows the
\* integer digit run; a `.` without a decimal digit right after it stays:
\* the token is the Int that ends before the `.`, and the step at a `.`
\* pushes Dot; and an exponent marker after the integer or the fractional
\* part, with no decimal digit after its optional sign, makes the step
\* fail with `invalid exponent`.
C23_FloatForms ==
    [][/\ AtDecimalLiteral =>
            /\ PushedToken =>
                 /\ Pushed[1].kind \in {"Int", "Float"}
                 /\ Pushed[1].kind = "Float"
                      <=> (FractionFollows \/ ExponentFollows)
            /\ (peek(source, IntegerPartEnd) = "." /\ ~FractionFollows) =>
                 \/ FailsWith("integer literal too large")
                 \/ /\ PushedToken
                    /\ Pushed[1].kind = "Int"
                    /\ Pushed[2] = span(start, ByteOff(source, IntegerPartEnd),
                                        file)
                    /\ chars' = IntegerPartEnd
            /\ (/\ ExponentFollows
                /\ peek(source, AfterExponentSign) \notin AsciiDigits)
                 => FailsWith("invalid exponent")
       /\ (AtChar /\ ch = ".") =>
            /\ PushedToken
            /\ Pushed = <<Tok("Dot"), span(start, start + 1, file)>>
            /\ chars' = chars + 1
      ]_vars

\* C24: every scan returns, with a token sequence or with one error, and
\* stays returned; a step of the main loop that does not return consumes
\* at least one character, the cursor never moves backwards, and the step
\* that pushes a number literal leaves the cursor exactly at the offset
\* the number scanner returned, which is also where the token's span ends.
C24_Termination ==
    /\ <>[](result.status \in {"ok", "err"})
    /\ [][/\ chars' >= chars
          /\ result'.status = "running" => chars' > chars
          /\ result.status # "running" => UNCHANGED vars
          /\ (AtChar /\ ch \in AsciiDigits /\ PushedToken) =>
               /\ chars' = CharIndex(source,
                                     read_number(source, start, file).end)
               /\ Pushed[2].end = read_number(source, start, file).end
               /\ \A i \in chars..(chars' - 1) :
                     source[i] \in AsciiDigits \cup AsciiLower \cup AsciiUpper
                                     \cup {"_", ".", "+", "-"}
         ]_vars

\* The scan of `3.14` has returned the Float over the four bytes and Eof.
C24_Witness ==
    /\ result.status = "ok"
    /\ input = <<"3", ".", "1", "4">>
    /\ Len(result.tokens) = 2
    /\ result.tokens[1][2] = span(0, 4, file)
    /\ result.tokens[2] = <<TokenEof, span(4, 4, file)>>

\* C25: in a returned token sequence every token starts at or after the
\* end of the token before it, and every span ends at or before the length
\* of the scanned source.
C25_SpansInOrder ==
    result.status = "ok" =>
        /\ \A i \in 1..(Len(result.tokens) - 1) :
              result.tokens[i + 1][2].start >= result.tokens[i][2].end
        /\ \A i \in 1..Len(result.tokens) :
              result.tokens[i][2].end <= ByteLen(source)

\* A scan has returned a prefixed character literal that ends with the
\* source, and the Eof that starts where it ends.
C25_Witness ==
    /\ result.status = "ok"
    /\ Len(result.tokens) = 2
    /\ result.tokens[1][1].kind = "PrefixedChar"
    /\ result.tokens[1][2].end = ByteLen(source)
    /\ result.tokens[2][2].start = ByteLen(source)
    /\ ByteLen(source) > 0

\* C26: at a quote and a letter or an underscore after it, the step fails
\* with `unexpected end of input after quote`, over the quote alone, when
\* the input ends there, and pushes a Lifetime that starts at the quote
\* when any character other than a quote comes next.
C26_LifetimeAtEndOfInput ==
    [][(/\ AtChar
        /\ ch = "'"
        /\ \/ is_alphabetic(peek(source, chars + 1))
           \/ peek(source, chars + 1) = "_")
       => /\ peek(source, chars + 2) = ""
             => /\ FailsWith("unexpected end of input after quote")
                /\ result'.span = span(start, start + 1, file)
                /\ result'.tokens = <<>>
          /\ peek(source, chars + 2) \notin {"", "'"}
             => /\ PushedToken
                /\ Pushed[1].kind = "Lifetime"
                /\ Pushed[1].s[1] = peek(source, chars + 1)
                /\ Pushed[2].start = start
      ]_vars

\* The scan of `'a` has failed at the quote.
C26_Witness ==
    /\ input = <<"'", "a">>
    /\ result.status = "err"
    /\ result.msg = "unexpected end of input after quote"
    /\ result.span = span(0, 1, file)

====
